---- MODULE Spec2Model ----
(***************************************************************************)
(* Model of the paymo-cli cache layer: the JSON file-backed Store          *)
(* (package cache, store.go), the key derivation (keys.go) and the         *)
(* CachedClient decorator (cached_client.go).                              *)
(*                                                                         *)
(* Time is time.Now().Unix() in seconds.  Go values are records whose      *)
(* fields carry the Go field names; their JSON encodings are records       *)
(* whose fields carry the json tags, with omitempty fields left out.       *)
(***************************************************************************)
EXTENDS Integers, Sequences, FiniteSets, TLC

VARIABLES entries, disk, now, last, scope, calls

vars == <<entries, disk, now, last, scope, calls>>

(***************************************************************************)
(* Bounds of the exploration.                                              *)
(***************************************************************************)
\* the clock runs until Horizon seconds past the longest TTL of the run's buckets
Horizon == 1
\* the document holds at most MaxEntries entries in a run
MaxEntries == 2

\* ids of the remote entities the runs use
Ids == {1, 2}

(***************************************************************************)
(* store.go: the TTL table.                                                *)
(***************************************************************************)
Hour == 3600
Minute == 60

DefaultTTL ==
  [t \in {"me", "projects", "project", "project_by_name", "tasks", "task",
          "task_by_name", "tasklists", "entries", "entry", "active_entry"} |->
     CASE t = "me" -> 24 * Hour
       [] t \in {"projects", "project", "project_by_name", "tasklists"} -> 1 * Hour
       [] t \in {"tasks", "task", "task_by_name"} -> 30 * Minute
       [] t \in {"entries", "entry"} -> 5 * Minute
       [] t = "active_entry" -> 0]

getTTL(resourceType) ==
  IF resourceType \in DOMAIN DefaultTTL THEN DefaultTTL[resourceType] ELSE 1 * Hour

\* every resource type named anywhere in the cache package, plus "clients",
\* a type that is absent from the TTL table
ResourceTypes == DOMAIN DefaultTTL \cup {"clients"}

(***************************************************************************)
(* encoding/json as the cache uses it.  A value is one of                  *)
(*   [ID, Name, Code]            api.Project  (Code is omitempty)          *)
(*   [ID, Name, ProjectID]       api.Task                                  *)
(*   [ID, Duration, Description] api.TimeEntry (Description is omitempty) *)
(*   [ID, Name, Email]           api.User                                  *)
(*   [ID, Name, Seq]             api.TaskList                              *)
(*   [items |-> <<...>>]         a slice of one of them                    *)
(***************************************************************************)
Nil == [nil |-> TRUE]

IsSlice(v) == "items" \in DOMAIN v

MarshalProject(p) ==
  IF p.Code = "" THEN [id |-> p.ID, name |-> p.Name]
                 ELSE [id |-> p.ID, name |-> p.Name, code |-> p.Code]

UnmarshalProject(j) ==
  [ID |-> j.id, Name |-> j.name, Code |-> IF "code" \in DOMAIN j THEN j.code ELSE ""]

MarshalTask(t) == [id |-> t.ID, name |-> t.Name, project_id |-> t.ProjectID]

UnmarshalTask(j) == [ID |-> j.id, Name |-> j.name, ProjectID |-> j.project_id]

MarshalEntry(e) ==
  IF e.Description = "" THEN [id |-> e.ID, duration |-> e.Duration]
  ELSE [id |-> e.ID, duration |-> e.Duration, description |-> e.Description]

UnmarshalEntry(j) ==
  [ID |-> j.id, Duration |-> j.duration,
   Description |-> IF "description" \in DOMAIN j THEN j.description ELSE ""]

MarshalUser(u) == [id |-> u.ID, name |-> u.Name, email |-> u.Email]

UnmarshalUser(j) == [ID |-> j.id, Name |-> j.name, Email |-> j.email]

MarshalTaskList(l) == [id |-> l.ID, name |-> l.Name, seq |-> l.Seq]

UnmarshalTaskList(j) == [ID |-> j.id, Name |-> j.name, Seq |-> j.seq]

MarshalOne(v) ==
  CASE "Code" \in DOMAIN v -> MarshalProject(v)
    [] "ProjectID" \in DOMAIN v -> MarshalTask(v)
    [] "Duration" \in DOMAIN v -> MarshalEntry(v)
    [] "Email" \in DOMAIN v -> MarshalUser(v)
    [] "Seq" \in DOMAIN v -> MarshalTaskList(v)

UnmarshalOne(j) ==
  CASE "project_id" \in DOMAIN j -> UnmarshalTask(j)
    [] "duration" \in DOMAIN j -> UnmarshalEntry(j)
    [] "email" \in DOMAIN j -> UnmarshalUser(j)
    [] "seq" \in DOMAIN j -> UnmarshalTaskList(j)
    [] OTHER -> UnmarshalProject(j)

\* json.Marshal(value)
Marshal(v) ==
  IF IsSlice(v) THEN [array |-> [i \in DOMAIN v.items |-> MarshalOne(v.items[i])]]
  ELSE MarshalOne(v)

\* json.Unmarshal(data, dest) into a zero-valued dest of the stored type
Unmarshal(j) ==
  IF "array" \in DOMAIN j THEN [items |-> [i \in DOMAIN j.array |-> UnmarshalOne(j.array[i])]]
  ELSE UnmarshalOne(j)

(***************************************************************************)
(* store.go: the document and the Store operations, as functions of the    *)
(* document d (resource type -> cache key -> cacheEntry) and the clock t.  *)
(***************************************************************************)
EmptyDoc == [rt \in {} |-> [k \in {} |-> Nil]]

cacheEntry(data, cachedAt, ttl) == [Data |-> data, CachedAt |-> cachedAt, TTLSeconds |-> ttl]

ErrCacheMiss == [ok |-> FALSE, val |-> Nil]

Found(v) == [ok |-> TRUE, val |-> v]

HasEntry(d, rt, k) == rt \in DOMAIN d /\ k \in DOMAIN d[rt]

\* Get without the expiry test
Get_noExpiry(d, t, resourceType, cacheKey) ==
  IF resourceType \notin DOMAIN d THEN ErrCacheMiss
  ELSE IF cacheKey \notin DOMAIN d[resourceType] THEN ErrCacheMiss
  ELSE Found(Unmarshal(d[resourceType][cacheKey].Data))

\* Get that takes an entry whose age equals its TTL for expired
Get_strict(d, t, resourceType, cacheKey) ==
  IF resourceType \notin DOMAIN d THEN ErrCacheMiss
  ELSE IF cacheKey \notin DOMAIN d[resourceType] THEN ErrCacheMiss
  ELSE IF t - d[resourceType][cacheKey].CachedAt >= d[resourceType][cacheKey].TTLSeconds
       THEN ErrCacheMiss
  ELSE Found(Unmarshal(d[resourceType][cacheKey].Data))

\* Store.Get
Get(d, t, resourceType, cacheKey) ==
  IF resourceType \notin DOMAIN d THEN ErrCacheMiss
  ELSE IF cacheKey \notin DOMAIN d[resourceType] THEN ErrCacheMiss
  ELSE IF t - d[resourceType][cacheKey].CachedAt > d[resourceType][cacheKey].TTLSeconds
       THEN ErrCacheMiss
  ELSE Found(Unmarshal(d[resourceType][cacheKey].Data))

\* Store.GetStale
GetStale(d, resourceType, cacheKey) ==
  IF resourceType \notin DOMAIN d THEN ErrCacheMiss
  ELSE IF cacheKey \notin DOMAIN d[resourceType] THEN ErrCacheMiss
  ELSE Found(Unmarshal(d[resourceType][cacheKey].Data))

\* Set without the test for a zero TTL
Set_noZeroCheck(d, t, resourceType, cacheKey, value) ==
  LET old == IF resourceType \in DOMAIN d THEN d[resourceType] ELSE [k \in {} |-> Nil]
      e == cacheEntry(Marshal(value), t, getTTL(resourceType))
      bucket == [k \in DOMAIN old \cup {cacheKey} |-> IF k = cacheKey THEN e ELSE old[k]]
  IN [rt \in DOMAIN d \cup {resourceType} |-> IF rt = resourceType THEN bucket ELSE d[rt]]

\* Set that keeps the entry a key already has
Set_keepOld(d, t, resourceType, cacheKey, value) ==
  IF getTTL(resourceType) = 0 THEN d
  ELSE IF resourceType \in DOMAIN d /\ cacheKey \in DOMAIN d[resourceType] THEN d
  ELSE LET old == IF resourceType \in DOMAIN d THEN d[resourceType] ELSE [k \in {} |-> Nil]
           e == cacheEntry(Marshal(value), t, getTTL(resourceType))
           bucket == [k \in DOMAIN old \cup {cacheKey} |-> IF k = cacheKey THEN e ELSE old[k]]
       IN [rt \in DOMAIN d \cup {resourceType} |-> IF rt = resourceType THEN bucket ELSE d[rt]]

\* Store.Set: the in-memory effect
Set(d, t, resourceType, cacheKey, value) ==
  IF getTTL(resourceType) = 0 THEN d
  ELSE LET old == IF resourceType \in DOMAIN d THEN d[resourceType] ELSE [k \in {} |-> Nil]
           e == cacheEntry(Marshal(value), t, getTTL(resourceType))
           bucket == [k \in DOMAIN old \cup {cacheKey} |-> IF k = cacheKey THEN e ELSE old[k]]
       IN [rt \in DOMAIN d \cup {resourceType} |-> IF rt = resourceType THEN bucket ELSE d[rt]]

\* InvalidateType that drops the whole document
InvalidateType_all(d, resourceTypes) == IF resourceTypes = {} THEN d ELSE EmptyDoc

\* InvalidateType that deletes nothing
InvalidateType_none(d, resourceTypes) == d

\* Store.InvalidateType: the in-memory effect
InvalidateType(d, resourceTypes) == [rt \in DOMAIN d \ resourceTypes |-> d[rt]]

\* Clear that leaves the buckets in place
Clear_none(d) == d

\* Store.Clear: the in-memory effect
Clear(d) == EmptyDoc

Expired(e, t) == t - e.CachedAt > e.TTLSeconds

\* Prune that also removes the entries whose age equals their TTL
Prune_strict(d, t) ==
  LET kept(rt) == {k \in DOMAIN d[rt] : t - d[rt][k].CachedAt < d[rt][k].TTLSeconds}
  IN [rt \in {x \in DOMAIN d : kept(x) # {}} |-> [k \in kept(rt) |-> d[rt][k]]]

\* Prune that removes nothing
Prune_none(d, t) == d

\* Store.Prune: the in-memory effect
Prune(d, t) ==
  LET kept(rt) == {k \in DOMAIN d[rt] : ~Expired(d[rt][k], t)}
  IN [rt \in {x \in DOMAIN d : kept(x) # {}} |-> [k \in kept(rt) |-> d[rt][k]]]

\* Store.Stats
Stats(d) == [rt \in DOMAIN d |-> Cardinality(DOMAIN d[rt])]

\* json.Marshal(s.data): the document with the json tags of cacheData and
\* cacheEntry
MarshalCacheData(d) ==
  [entries |-> [rt \in DOMAIN d |-> [k \in DOMAIN d[rt] |->
     [data |-> d[rt][k].Data, cached_at |-> d[rt][k].CachedAt,
      ttl_seconds |-> d[rt][k].TTLSeconds]]]]

\* json.Unmarshal(raw, &s.data) of a well-formed document
UnmarshalCacheData(j) ==
  [rt \in DOMAIN j.entries |-> [k \in DOMAIN j.entries[rt] |->
     cacheEntry(j.entries[rt][k].data, j.entries[rt][k].cached_at,
                j.entries[rt][k].ttl_seconds)]]

\* What the cache file can be besides a well-formed document:
\*   missing      there is no file (os.ReadFile fails)
\*   empty        a file of length 0
\*   garbage      bytes that are not JSON ("not json", a cut-off document)
\*   mistyped     JSON with a value of the wrong type somewhere: json.Unmarshal
\*                fills in what precedes it (partial) and returns an error
\*   null         the JSON value null
\*   object       a JSON object without a non-null "entries" member
NoFile == [file |-> "missing"]
EmptyFile == [file |-> "empty"]
Garbage == [file |-> "garbage"]
Mistyped(j) == [file |-> "mistyped", partial |-> j]
JSONNull == [file |-> "null"]
JSONObject == [file |-> "object"]

IsDocument(f) == "entries" \in DOMAIN f

\* Open that keeps what json.Unmarshal decoded before it failed
Open_keepPartial(f) ==
  IF IsDocument(f) THEN UnmarshalCacheData(f)
  ELSE IF f.file = "mistyped" THEN UnmarshalCacheData(f.partial)
  ELSE EmptyDoc

\* Open: the document of the Store it returns (it returns no error once the
\* directory exists)
Open(f) ==
  IF IsDocument(f) THEN UnmarshalCacheData(f)
  ELSE IF f.file \in {"missing", "empty"} THEN EmptyDoc
  ELSE IF f.file \in {"garbage", "mistyped"} THEN EmptyDoc
  ELSE EmptyDoc

\* os.WriteFile(path, raw, 0644) on the file f: it opens the file with O_TRUNC
\* and writes.  wr is what happens: "ok"; "denied", the file cannot be opened
\* and stays as it is; "cut", the write breaks off and leaves a cut-off
\* document.
WriteFile(f, raw, wr) ==
  CASE wr = "ok" -> raw
    [] wr = "denied" -> f
    [] wr = "cut" -> Garbage

\* the error os.WriteFile returns
WriteErr(wr) == wr # "ok"

\* flush that reports success without writing
flush_skip(d, wr) == disk

\* Store.flush: the file after it
flush(d, wr) == WriteFile(disk, MarshalCacheData(d), wr)

\* Store.Set returns nil without flushing when the TTL is zero
SetFlush(d, resourceType, wr) == IF getTTL(resourceType) = 0 THEN disk ELSE flush(d, wr)

NumEntries(d) == Cardinality(UNION {{<<rt, k>> : k \in DOMAIN d[rt]} : rt \in DOMAIN d})

(***************************************************************************)
(* Strings that the code inspects character by character are sequences of  *)
(* one-character strings: entity names (strings.ToLower, strings.Contains).*)
(***************************************************************************)
LowerChar(c) ==
  CASE c = "A" -> "a" [] c = "P" -> "p" [] c = "W" -> "w" [] c = "E" -> "e"
    [] c = "B" -> "b" [] OTHER -> c

\* strings.ToLower
ToLower(s) == [i \in DOMAIN s |-> LowerChar(s[i])]

\* strings.Contains
Contains(s, substr) ==
  \E i \in 0..(Len(s) - Len(substr)) : SubSeq(s, i + 1, i + Len(substr)) = substr

\* Store.IndexName: a no-op, the index is implicit in the cached entities
IndexName(d, resourceType, nameLower, id, projectID) == d

\* LookupName that does not compare the parent project of a task
LookupName_anyProject(d, resourceType, nameLower, projectID) ==
  IF resourceType \in {"project", "task"} /\ resourceType \in DOMAIN d
    THEN {d[resourceType][k].Data.id : k \in
            {x \in DOMAIN d[resourceType] :
               Contains(ToLower(d[resourceType][x].Data.name), nameLower)}}
  ELSE {}

\* Store.LookupName ranges over a Go map: the first match in iteration order
\* is any match.  The set of ids it can return; empty means ErrCacheMiss.
LookupName(d, resourceType, nameLower, projectID) ==
  IF resourceType = "project" /\ "project" \in DOMAIN d
    THEN {d["project"][k].Data.id : k \in
            {x \in DOMAIN d["project"] :
               Contains(ToLower(d["project"][x].Data.name), nameLower)}}
  ELSE IF resourceType = "task" /\ "task" \in DOMAIN d
    THEN {d["task"][k].Data.id : k \in
            {x \in DOMAIN d["task"] :
               /\ d["task"][x].Data.project_id = projectID
               /\ Contains(ToLower(d["task"][x].Data.name), nameLower)}}
  ELSE {}

(***************************************************************************)
(* keys.go: cache keys of the list operations.  Nil is a nil options       *)
(* pointer.  A time.Time is [Day, Sec]; the zero time is day 0, second 0.  *)
(***************************************************************************)
Join(parts) ==
  LET RECURSIVE J(_)
      J(i) == IF i = Len(parts) THEN parts[i] ELSE parts[i] \o "|" \o J(i + 1)
  IN J(1)

Part(cond, text) == IF cond THEN <<text>> ELSE <<>>

IsZero(t) == t.Day = 0 /\ t.Sec = 0

\* time.Time.Format("2006-01-02")
FormatDay(t) == "day" \o ToString(t.Day)

\* KeyOf without the test for an empty list of parts
KeyOf_noSentinel(parts) == IF Len(parts) = 0 THEN "" ELSE Join(parts)

KeyOf(parts) == IF Len(parts) = 0 THEN "all" ELSE Join(parts)

projectsKey(opts) ==
  IF opts = Nil THEN "all"
  ELSE KeyOf(Part(opts.ActiveOnly, "active=true")
             \o Part(opts.ClientID > 0, "client=" \o ToString(opts.ClientID))
             \o Part(opts.UserID > 0, "user=" \o ToString(opts.UserID))
             \o Part(opts.IncludeTasks, "inc_tasks")
             \o Part(opts.IncludeClient, "inc_client"))

tasksKey(opts) ==
  IF opts = Nil THEN "all"
  ELSE KeyOf(Part(opts.ProjectID > 0, "project=" \o ToString(opts.ProjectID))
             \o Part(opts.TaskListID > 0, "tasklist=" \o ToString(opts.TaskListID))
             \o Part(opts.UserID > 0, "user=" \o ToString(opts.UserID))
             \o (IF opts.IncludeCompleted THEN <<"completed=true">> ELSE <<"completed=false">>)
             \o Part(opts.IncludeProject, "inc_project"))

entriesKey(opts) ==
  IF opts = Nil THEN "all"
  ELSE KeyOf(Part(opts.UserID > 0, "user=" \o ToString(opts.UserID))
             \o Part(opts.ProjectID > 0, "project=" \o ToString(opts.ProjectID))
             \o Part(opts.TaskID > 0, "task=" \o ToString(opts.TaskID))
             \o Part(~IsZero(opts.StartDate), "start=" \o FormatDay(opts.StartDate))
             \o Part(~IsZero(opts.EndDate), "end=" \o FormatDay(opts.EndDate)))

\* fmt.Sprintf("%d", id)
idKey(id) == ToString(id)

(***************************************************************************)
(* cached_client.go: errors.  An error is [api, text]: api tells whether   *)
(* it is (or wraps) an *api.APIError, text is its message as a sequence of *)
(* phrases.                                                                *)
(***************************************************************************)
NoErr == [api |-> FALSE, text |-> <<>>]

Mentions(err, phrase) == \E i \in DOMAIN err.text : err.text[i] = phrase

\* isNetworkError that never recognises a network error
isNetworkError_never(err) == FALSE

\* isNetworkError without the errors.As test
isNetworkError_noAs(err) ==
  \/ Mentions(err, "connection refused")
  \/ Mentions(err, "no such host")
  \/ Mentions(err, "network is unreachable")
  \/ Mentions(err, "i/o timeout")
  \/ Mentions(err, "dial tcp")

\* isNetworkError that takes every error that is no APIError for a network error
isNetworkError_anyOther(err) == ~err.api

\* isNetworkError that does not look for "i/o timeout"
isNetworkError_noTimeout(err) ==
  IF err.api THEN FALSE
  ELSE \/ Mentions(err, "connection refused")
       \/ Mentions(err, "no such host")
       \/ Mentions(err, "network is unreachable")
       \/ Mentions(err, "dial tcp")

isNetworkError(err) ==
  IF err.api THEN FALSE
  ELSE \/ Mentions(err, "connection refused")
       \/ Mentions(err, "no such host")
       \/ Mentions(err, "network is unreachable")
       \/ Mentions(err, "i/o timeout")
       \/ Mentions(err, "dial tcp")

(***************************************************************************)
(* The runs.  A run works on the buckets of one resource family (scope);   *)
(* the clock only moves to the instants at which a stored entry reaches    *)
(* its TTL (still fresh) or passes it (expired).                           *)
(***************************************************************************)
Scopes == {{"projects", "project", "project_by_name"},
           {"tasks", "task", "task_by_name"},
           {"entries", "entry", "active_entry"},
           {"tasklists"},
           {"me"}}

\* the buckets the runs of the bare Store work on: a type of the TTL table, the
\* never-cached type, and a type the table does not name
StoreScope == {"project", "active_entry", "clients"}

Max(S) == CHOOSE x \in S : \A y \in S : y <= x

LongestTTL == Max({getTTL(rt) : rt \in scope})

\* os.WriteFile outcomes: those of the runs in which the disk works, and all
WriteOutcomes == {"ok"}

AnyWriteOutcome == {"ok", "denied", "cut"}

Instants(d) ==
  UNION {UNION {{d[rt][k].CachedAt + d[rt][k].TTLSeconds,
                 d[rt][k].CachedAt + d[rt][k].TTLSeconds + 1} : k \in DOMAIN d[rt]}
         : rt \in DOMAIN d}

\* time.Now() moves forward
Tick ==
  /\ \E t \in Instants(entries) :
       /\ t > now
       /\ t <= LongestTTL + Horizon
       /\ now' = t
  /\ UNCHANGED <<entries, disk, last, scope, calls>>

Fits(d) == NumEntries(d) <= MaxEntries

\* no goroutine is inside a Store call: the runs that are single-threaded
NoCalls == <<>>

Opened ==
  /\ entries = Open(NoFile)
  /\ disk = NoFile
  /\ now = 0
  /\ last = [op |-> "Open"]
  /\ calls = NoCalls

Init == Opened /\ scope \in Scopes

InitStore == Opened /\ scope = StoreScope

(***************************************************************************)
(* The Store used directly (store_test.go, cmd/cache.go).                  *)
(***************************************************************************)
StoreKeys == {"1", "all"}

StoreValues == {[ID |-> 1, Name |-> "Web", Code |-> ""],
                [ID |-> 1, Name |-> "Web", Code |-> "W1"]}

DoSet(rt, k, v, wr) ==
  /\ Fits(Set(entries, now, rt, k, v))
  /\ entries' = Set(entries, now, rt, k, v)
  /\ disk' = SetFlush(entries', rt, wr)
  /\ last' = [op |-> "Set", rt |-> rt, key |-> k, val |-> v, at |-> now,
              err |-> getTTL(rt) # 0 /\ WriteErr(wr)]
  /\ UNCHANGED <<now, scope, calls>>

DoGet(rt, k) ==
  /\ last' = [op |-> "Get", rt |-> rt, key |-> k, res |-> Get(entries, now, rt, k), at |-> now]
  /\ UNCHANGED <<entries, disk, now, scope, calls>>

DoGetStale(rt, k) ==
  /\ last' = [op |-> "GetStale", rt |-> rt, key |-> k, res |-> GetStale(entries, rt, k), at |-> now]
  /\ UNCHANGED <<entries, disk, now, scope, calls>>

DoInvalidateType(rts, wr) ==
  /\ entries' = InvalidateType(entries, rts)
  /\ disk' = flush(entries', wr)
  /\ last' = [op |-> "InvalidateType", rts |-> rts, at |-> now, had |-> Stats(entries),
              err |-> WriteErr(wr)]
  /\ UNCHANGED <<now, scope, calls>>

DoClear(wr) ==
  /\ entries' = Clear(entries)
  /\ disk' = flush(entries', wr)
  /\ last' = [op |-> "Clear", at |-> now, had |-> Stats(entries), err |-> WriteErr(wr)]
  /\ UNCHANGED <<now, scope, calls>>

DoPrune(wr) ==
  /\ entries' = Prune(entries, now)
  /\ disk' = flush(entries', wr)
  /\ last' = [op |-> "Prune", at |-> now, had |-> Stats(entries), err |-> WriteErr(wr)]
  /\ UNCHANGED <<now, scope, calls>>

NextStore ==
  \/ \E rt \in scope, k \in StoreKeys, v \in StoreValues, wr \in WriteOutcomes : DoSet(rt, k, v, wr)
  \/ \E rt \in scope, k \in StoreKeys : DoGet(rt, k)
  \/ \E rt \in scope, k \in StoreKeys : DoGetStale(rt, k)
  \/ \E rts \in SUBSET scope, wr \in WriteOutcomes : DoInvalidateType(rts, wr)
  \/ \E wr \in WriteOutcomes : DoClear(wr)
  \/ \E wr \in WriteOutcomes : DoPrune(wr)
  \/ Tick

SpecStore == InitStore /\ [][NextStore]_vars

(***************************************************************************)
(* The wrapped client (api.PaymoAPI): what a call of it can answer.        *)
(***************************************************************************)
Ok(v) == [ok |-> TRUE, val |-> v, err |-> NoErr]

Fail(e) == [ok |-> FALSE, val |-> Nil, err |-> e]

\* an *api.APIError whose message happens to mention a refused connection
ErrAPI == [api |-> TRUE, text |-> <<"Paymo API error (502)", "connection refused">>]
\* what http.Client.Do returns when the server cannot be reached
ErrNet == [api |-> FALSE, text |-> <<"executing request", "dial tcp", "connection refused">>]
\* neither: the response body could not be parsed
ErrOther == [api |-> FALSE, text |-> <<"parsing response">>]

InnerErrs == {ErrAPI, ErrNet, ErrOther}

Failures == {Fail(e) : e \in InnerErrs}

NameWeb == <<"W", "e", "b">>
NameApp == <<"A", "p", "p">>
Names == {NameWeb, NameApp}
\* names a user types for a lookup by name
SearchNames == {<<"W", "E">>, <<"a", "p", "p">>}

ProjectsOf(id) == {[ID |-> id, Name |-> NameWeb, Code |-> ""],
                   [ID |-> id, Name |-> NameApp, Code |-> "A1"]}

TasksOf(id) == {[ID |-> id, Name |-> NameWeb, ProjectID |-> 1],
                [ID |-> id, Name |-> NameApp, ProjectID |-> 2]}

EntriesOf(id) == {[ID |-> id, Duration |-> 0, Description |-> ""],
                  [ID |-> id, Duration |-> 60, Description |-> "done"]}

Users == {[ID |-> 1, Name |-> "Ann", Email |-> "ann@x"],
          [ID |-> 1, Name |-> "Ann", Email |-> "ann@y"]}

TaskListsOf(projectID) == {[items |-> <<>>],
                           [items |-> <<[ID |-> projectID, Name |-> "Backlog", Seq |-> 1]>>]}

ProjectLists == {[items |-> <<>>],
                 [items |-> <<[ID |-> 1, Name |-> NameWeb, Code |-> ""]>>]}

TaskLists == {[items |-> <<>>],
              [items |-> <<[ID |-> 1, Name |-> NameWeb, ProjectID |-> 1]>>]}

EntryLists == {[items |-> <<>>],
               [items |-> <<[ID |-> 1, Duration |-> 60, Description |-> ""]>>]}

ZeroTime == [Day |-> 0, Sec |-> 0]

ProjectOpts == {Nil,
                [ActiveOnly |-> TRUE, ClientID |-> 0, UserID |-> 0,
                 IncludeTasks |-> FALSE, IncludeClient |-> FALSE]}

TaskOpts == {Nil,
             [ProjectID |-> 1, TaskListID |-> 0, UserID |-> 0,
              IncludeCompleted |-> FALSE, IncludeProject |-> FALSE]}

EntryOpts == {Nil,
              [UserID |-> 1, ProjectID |-> 0, TaskID |-> 0, StartDate |-> ZeroTime,
               EndDate |-> ZeroTime, IncludeTask |-> FALSE, IncludeProject |-> FALSE]}

(***************************************************************************)
(* cached_client.go.  last records the call that returned last: the        *)
(* operation, its arguments, the clock, the returned value or error, the   *)
(* operations of the wrapped client it invoked and what that answered, the *)
(* return statement it left by (src: "cache" a fresh hit, "inner" the      *)
(* wrapped client's answer, "stale" the GetStale fallback), and the        *)
(* buckets the document had when the call began.                           *)
(***************************************************************************)
Ret(op, arg, ok, val, err, inner, src, answer) ==
  [op |-> op, arg |-> arg, at |-> now, ok |-> ok, val |-> val, err |-> err,
   inner |-> inner, src |-> src, answer |-> answer, had |-> DOMAIN entries]

\* the wrapped client was not asked
NoAnswer == [ok |-> FALSE, val |-> Nil, err |-> NoErr]

\* return cached, nil
RetHit(op, arg, v) == Ret(op, arg, TRUE, v, NoErr, {}, "cache", NoAnswer)

\* the error of the Store, errors.New("cache miss")
CacheMissError == [api |-> FALSE, text |-> <<"cache miss">>]

\* a failing call that returns the Store's error in place of the wrapped client's
RetInner_cacheErr(op, arg, res, called) ==
  Ret(op, arg, res.ok, res.val, IF res.ok THEN NoErr ELSE CacheMissError, {called}, "inner", res)

\* return result, nil  /  return nil, err
RetInner(op, arg, res, called) == Ret(op, arg, res.ok, res.val, res.err, {called}, "inner", res)

\* return stale, nil
RetStale(op, arg, v, res, called) == Ret(op, arg, TRUE, v, NoErr, {called}, "stale", res)

Keep == UNCHANGED <<entries, disk>>

Frame == UNCHANGED <<now, scope, calls>>

\* c.store.Set(resourceType, key, value) as the last store write of a call
Store1(resourceType, key, value, wr) ==
  /\ entries' = Set(entries, now, resourceType, key, value)
  /\ disk' = SetFlush(entries', resourceType, wr)
  /\ Fits(entries')

\* c.store.InvalidateType(types...) as the only store write of a call
Invalidate1(resourceTypes, wr) ==
  /\ entries' = InvalidateType(entries, resourceTypes)
  /\ disk' = flush(entries', wr)

\* c.store.InvalidateType(list) followed by c.store.Set(resourceType, key, value)
InvalidateThenSet(resourceTypes, resourceType, key, value, wr1, wr2) ==
  /\ entries' = Set(InvalidateType(entries, resourceTypes), now, resourceType, key, value)
  /\ disk' = LET invalidated ==
                   WriteFile(disk, MarshalCacheData(InvalidateType(entries, resourceTypes)), wr1)
             IN IF getTTL(resourceType) = 0 THEN invalidated
                ELSE WriteFile(invalidated, MarshalCacheData(entries'), wr2)
  /\ Fits(entries')

\* what the wrapped client can answer to each call
OkOrFail(vals) == {Ok(v) : v \in vals} \cup Failures

\* the same for the operations that never look at the kind of the error
OkOrErr(vals) == {Ok(v) : v \in vals} \cup {Fail(ErrAPI), Fail(ErrNet)}

AnyProject == UNION {ProjectsOf(id) : id \in Ids}

innerGetMe == OkOrErr(Users)
innerGetProjects(opts) == OkOrFail(ProjectLists)
innerGetProject(id) == OkOrFail(ProjectsOf(id))
innerGetProjectByName(name) ==
  OkOrErr({p \in AnyProject : Contains(ToLower(p.Name), ToLower(name))})
innerCreateProject == OkOrErr(AnyProject)
innerArchiveProject(id) == OkOrErr({Nil})
innerGetTaskLists(projectID) == OkOrErr(TaskListsOf(projectID))

GetMe(wr) ==
  /\ "me" \in scope
  /\ LET cached == Get(entries, now, "me", "me")
     IN IF cached.ok THEN last' = RetHit("GetMe", <<>>, cached.val) /\ Keep
        ELSE \E res \in innerGetMe :
               /\ last' = RetInner("GetMe", <<>>, res, "GetMe")
               /\ IF ~res.ok THEN Keep ELSE Store1("me", "me", res.val, wr)
  /\ Frame

\* GetProjects that returns the error of Store.Set
GetProjects_setErr(opts, wr) ==
  /\ "projects" \in scope
  /\ LET key == projectsKey(opts)
         cached == Get(entries, now, "projects", key)
         stale == GetStale(entries, "projects", key)
     IN IF cached.ok THEN last' = RetHit("GetProjects", <<opts>>, cached.val) /\ Keep
        ELSE \E res \in innerGetProjects(opts) :
               IF ~res.ok
               THEN /\ last' = IF isNetworkError(res.err) /\ stale.ok
                               THEN RetStale("GetProjects", <<opts>>, stale.val, res, "GetProjects")
                               ELSE RetInner("GetProjects", <<opts>>, res, "GetProjects")
                    /\ Keep
               ELSE /\ Store1("projects", key, res.val, wr)
                    /\ last' = IF WriteErr(wr)
                               THEN Ret("GetProjects", <<opts>>, FALSE, Nil, ErrOther,
                                        {"GetProjects"}, "inner", res)
                               ELSE RetInner("GetProjects", <<opts>>, res, "GetProjects")
  /\ Frame

GetProjects(opts, wr) ==
  /\ "projects" \in scope
  /\ LET key == projectsKey(opts)
         cached == Get(entries, now, "projects", key)
         stale == GetStale(entries, "projects", key)
     IN IF cached.ok THEN last' = RetHit("GetProjects", <<opts>>, cached.val) /\ Keep
        ELSE \E res \in innerGetProjects(opts) :
               IF ~res.ok
               THEN /\ last' = IF isNetworkError(res.err) /\ stale.ok
                               THEN RetStale("GetProjects", <<opts>>, stale.val, res, "GetProjects")
                               ELSE RetInner("GetProjects", <<opts>>, res, "GetProjects")
                    /\ Keep
               ELSE /\ Store1("projects", key, res.val, wr)
                    /\ last' = RetInner("GetProjects", <<opts>>, res, "GetProjects")
  /\ Frame

\* the body of GetProject, also reached from GetProjectByName on an index hit
GetProjectAs(op, arg, id, wr) ==
  LET key == idKey(id)
      cached == Get(entries, now, "project", key)
      stale == GetStale(entries, "project", key)
  IN IF cached.ok THEN last' = RetHit(op, arg, cached.val) /\ Keep
     ELSE \E res \in innerGetProject(id) :
            IF ~res.ok
            THEN /\ last' = IF isNetworkError(res.err) /\ stale.ok
                            THEN RetStale(op, arg, stale.val, res, "GetProject")
                            ELSE RetInner(op, arg, res, "GetProject")
                 /\ Keep
            ELSE /\ Store1("project", key, res.val, wr)
                 /\ last' = RetInner(op, arg, res, "GetProject")

GetProject(id, wr) ==
  /\ "project" \in scope
  /\ GetProjectAs("GetProject", <<id>>, id, wr)
  /\ Frame

\* GetProjectByName that stores what the name search found in project_by_name
GetProjectByName_byNameBucket(name, wr) ==
  /\ "project" \in scope
  /\ LET found == LookupName(entries, "project", ToLower(name), 0)
     IN IF found # {}
          THEN \E id \in found : GetProjectAs("GetProjectByName", <<name>>, id, wr)
        ELSE \E res \in innerGetProjectByName(name) :
               /\ IF ~res.ok THEN Keep
                  ELSE Store1("project_by_name", idKey(res.val.ID), res.val, wr)
               /\ last' = RetInner("GetProjectByName", <<name>>, res, "GetProjectByName")
  /\ Frame

GetProjectByName(name, wr) ==
  /\ "project" \in scope
  /\ LET found == LookupName(entries, "project", ToLower(name), 0)
     IN IF found # {}
          THEN \E id \in found : GetProjectAs("GetProjectByName", <<name>>, id, wr)
        ELSE \E res \in innerGetProjectByName(name) :
               /\ IF ~res.ok THEN Keep
                  ELSE Store1("project", idKey(res.val.ID), res.val, wr)
               /\ last' = RetInner("GetProjectByName", <<name>>, res, "GetProjectByName")
  /\ Frame

\* CreateProject that invalidates the lists and stores nothing
CreateProject_invalidateOnly(wr1, wr2) ==
  /\ "project" \in scope
  /\ \E res \in innerCreateProject :
       /\ IF ~res.ok THEN Keep ELSE Invalidate1({"projects"}, wr1)
       /\ last' = RetInner("CreateProject", <<>>, res, "CreateProject")
  /\ Frame

CreateProject(wr1, wr2) ==
  /\ "project" \in scope
  /\ \E res \in innerCreateProject :
       /\ IF ~res.ok THEN Keep
          ELSE InvalidateThenSet({"projects"}, "project", idKey(res.val.ID), res.val, wr1, wr2)
       /\ last' = RetInner("CreateProject", <<>>, res, "CreateProject")
  /\ Frame

\* ArchiveProject that forgets the single-project buckets
ArchiveProject_listOnly(id, wr) ==
  /\ "project" \in scope
  /\ \E res \in innerArchiveProject(id) :
       /\ IF ~res.ok THEN Keep ELSE Invalidate1({"projects"}, wr)
       /\ last' = RetInner("ArchiveProject", <<id>>, res, "ArchiveProject")
  /\ Frame

ArchiveProject(id, wr) ==
  /\ "project" \in scope
  /\ \E res \in innerArchiveProject(id) :
       /\ IF ~res.ok THEN Keep
          ELSE Invalidate1({"projects", "project", "project_by_name"}, wr)
       /\ last' = RetInner("ArchiveProject", <<id>>, res, "ArchiveProject")
  /\ Frame

GetTaskLists(projectID, wr) ==
  /\ "tasklists" \in scope
  /\ LET key == "project=" \o ToString(projectID)
         cached == Get(entries, now, "tasklists", key)
     IN IF cached.ok THEN last' = RetHit("GetTaskLists", <<projectID>>, cached.val) /\ Keep
        ELSE \E res \in innerGetTaskLists(projectID) :
               /\ last' = RetInner("GetTaskLists", <<projectID>>, res, "GetTaskLists")
               /\ IF ~res.ok THEN Keep ELSE Store1("tasklists", key, res.val, wr)
  /\ Frame

ValidateAuth ==
  /\ "me" \in scope
  /\ \E res \in OkOrErr({Nil}) : last' = RetInner("ValidateAuth", <<>>, res, "ValidateAuth")
  /\ Keep
  /\ Frame

AnyTask == UNION {TasksOf(id) : id \in Ids}

innerGetTasks(opts) == OkOrFail(TaskLists)
innerGetTask(id) == OkOrFail(TasksOf(id))
innerGetTaskByName(projectID, name) ==
  OkOrErr({t \in AnyTask : t.ProjectID = projectID /\ Contains(ToLower(t.Name), ToLower(name))})
innerCreateTask == OkOrErr(AnyTask)
innerCompleteTask(id) == OkOrErr({Nil})

GetTasks(opts, wr) ==
  /\ "tasks" \in scope
  /\ LET key == tasksKey(opts)
         cached == Get(entries, now, "tasks", key)
         stale == GetStale(entries, "tasks", key)
     IN IF cached.ok THEN last' = RetHit("GetTasks", <<opts>>, cached.val) /\ Keep
        ELSE \E res \in innerGetTasks(opts) :
               IF ~res.ok
               THEN /\ last' = IF isNetworkError(res.err) /\ stale.ok
                               THEN RetStale("GetTasks", <<opts>>, stale.val, res, "GetTasks")
                               ELSE RetInner("GetTasks", <<opts>>, res, "GetTasks")
                    /\ Keep
               ELSE /\ Store1("tasks", key, res.val, wr)
                    /\ last' = RetInner("GetTasks", <<opts>>, res, "GetTasks")
  /\ Frame

\* the body of GetTask, also reached from GetTaskByName on an index hit
GetTaskAs(op, arg, id, wr) ==
  LET key == idKey(id)
      cached == Get(entries, now, "task", key)
      stale == GetStale(entries, "task", key)
  IN IF cached.ok THEN last' = RetHit(op, arg, cached.val) /\ Keep
     ELSE \E res \in innerGetTask(id) :
            IF ~res.ok
            THEN /\ last' = IF isNetworkError(res.err) /\ stale.ok
                            THEN RetStale(op, arg, stale.val, res, "GetTask")
                            ELSE RetInner(op, arg, res, "GetTask")
                 /\ Keep
            ELSE /\ Store1("task", key, res.val, wr)
                 /\ last' = RetInner(op, arg, res, "GetTask")

GetTask(id, wr) ==
  /\ "task" \in scope
  /\ GetTaskAs("GetTask", <<id>>, id, wr)
  /\ Frame

\* GetTaskByName that does not store what the name search found
GetTaskByName_noStore(projectID, name, wr) ==
  /\ "task" \in scope
  /\ LET found == LookupName(entries, "task", ToLower(name), projectID)
     IN IF found # {}
          THEN \E id \in found : GetTaskAs("GetTaskByName", <<projectID, name>>, id, wr)
        ELSE \E res \in innerGetTaskByName(projectID, name) :
               /\ Keep
               /\ last' = RetInner("GetTaskByName", <<projectID, name>>, res, "GetTaskByName")
  /\ Frame

GetTaskByName(projectID, name, wr) ==
  /\ "task" \in scope
  /\ LET found == LookupName(entries, "task", ToLower(name), projectID)
     IN IF found # {}
          THEN \E id \in found : GetTaskAs("GetTaskByName", <<projectID, name>>, id, wr)
        ELSE \E res \in innerGetTaskByName(projectID, name) :
               /\ IF ~res.ok THEN Keep
                  ELSE Store1("task", idKey(res.val.ID), res.val, wr)
               /\ last' = RetInner("GetTaskByName", <<projectID, name>>, res, "GetTaskByName")
  /\ Frame

CreateTask(wr1, wr2) ==
  /\ "task" \in scope
  /\ \E res \in innerCreateTask :
       /\ IF ~res.ok THEN Keep
          ELSE InvalidateThenSet({"tasks"}, "task", idKey(res.val.ID), res.val, wr1, wr2)
       /\ last' = RetInner("CreateTask", <<>>, res, "CreateTask")
  /\ Frame

\* CompleteTask that invalidates before it looks at the error
CompleteTask_always(id, wr) ==
  /\ "task" \in scope
  /\ \E res \in innerCompleteTask(id) :
       /\ Invalidate1({"tasks", "task", "task_by_name"}, wr)
       /\ last' = RetInner("CompleteTask", <<id>>, res, "CompleteTask")
  /\ Frame

CompleteTask(id, wr) ==
  /\ "task" \in scope
  /\ \E res \in innerCompleteTask(id) :
       /\ IF ~res.ok THEN Keep
          ELSE Invalidate1({"tasks", "task", "task_by_name"}, wr)
       /\ last' = RetInner("CompleteTask", <<id>>, res, "CompleteTask")
  /\ Frame

AnyEntry == UNION {EntriesOf(id) : id \in Ids}

UserIds == {1}

innerGetEntries(opts) == OkOrFail(EntryLists)
innerGetEntry(id) == OkOrErr(EntriesOf(id))
innerCreateEntry == OkOrErr(AnyEntry)
innerUpdateEntry(id) == OkOrErr(EntriesOf(id))
innerDeleteEntry(id) == OkOrErr({Nil})
innerGetTodayEntries(userID) == OkOrErr(EntryLists)
\* (nil, nil) when no timer runs
innerGetActiveEntry(userID) == OkOrErr({e \in AnyEntry : e.Duration = 0} \cup {Nil})
innerStartEntry(taskID) == OkOrErr({e \in AnyEntry : e.Duration = 0})
innerStopEntry(id) == OkOrErr({e \in EntriesOf(id) : e.Duration > 0})

GetEntries(opts, wr) ==
  /\ "entries" \in scope
  /\ LET key == entriesKey(opts)
         cached == Get(entries, now, "entries", key)
         stale == GetStale(entries, "entries", key)
     IN IF cached.ok THEN last' = RetHit("GetEntries", <<opts>>, cached.val) /\ Keep
        ELSE \E res \in innerGetEntries(opts) :
               IF ~res.ok
               THEN /\ last' = IF isNetworkError(res.err) /\ stale.ok
                               THEN RetStale("GetEntries", <<opts>>, stale.val, res, "GetEntries")
                               ELSE RetInner("GetEntries", <<opts>>, res, "GetEntries")
                    /\ Keep
               ELSE /\ Store1("entries", key, res.val, wr)
                    /\ last' = RetInner("GetEntries", <<opts>>, res, "GetEntries")
  /\ Frame

GetEntry(id, wr) ==
  /\ "entry" \in scope
  /\ LET key == idKey(id)
         cached == Get(entries, now, "entry", key)
     IN IF cached.ok THEN last' = RetHit("GetEntry", <<id>>, cached.val) /\ Keep
        ELSE \E res \in innerGetEntry(id) :
               /\ last' = RetInner("GetEntry", <<id>>, res, "GetEntry")
               /\ IF ~res.ok THEN Keep ELSE Store1("entry", key, res.val, wr)
  /\ Frame

CreateEntry(wr) ==
  /\ "entry" \in scope
  /\ \E res \in innerCreateEntry :
       /\ IF ~res.ok THEN Keep ELSE Invalidate1({"entries", "active_entry"}, wr)
       /\ last' = RetInner("CreateEntry", <<>>, res, "CreateEntry")
  /\ Frame

\* UpdateEntry that answers from the entry bucket when the entry is cached
UpdateEntry_cached(id, wr) ==
  /\ "entry" \in scope
  /\ LET cached == Get(entries, now, "entry", idKey(id))
     IN IF cached.ok THEN last' = RetHit("UpdateEntry", <<id>>, cached.val) /\ Keep
        ELSE \E res \in innerUpdateEntry(id) :
               /\ IF ~res.ok THEN Keep ELSE Invalidate1({"entries", "entry"}, wr)
               /\ last' = RetInner("UpdateEntry", <<id>>, res, "UpdateEntry")
  /\ Frame

UpdateEntry(id, wr) ==
  /\ "entry" \in scope
  /\ \E res \in innerUpdateEntry(id) :
       /\ IF ~res.ok THEN Keep ELSE Invalidate1({"entries", "entry"}, wr)
       /\ last' = RetInner("UpdateEntry", <<id>>, res, "UpdateEntry")
  /\ Frame

DeleteEntry(id, wr) ==
  /\ "entry" \in scope
  /\ \E res \in innerDeleteEntry(id) :
       /\ IF ~res.ok THEN Keep ELSE Invalidate1({"entries", "entry"}, wr)
       /\ last' = RetInner("DeleteEntry", <<id>>, res, "DeleteEntry")
  /\ Frame

GetTodayEntries(userID) ==
  /\ "entries" \in scope
  /\ \E res \in innerGetTodayEntries(userID) :
       last' = RetInner("GetTodayEntries", <<userID>>, res, "GetTodayEntries")
  /\ Keep
  /\ Frame

\* GetActiveEntry that answers from the cached single entries when it can
GetActiveEntry_cached(userID) ==
  /\ "active_entry" \in scope
  /\ LET cached == Get(entries, now, "entry", idKey(userID))
     IN IF cached.ok THEN last' = RetHit("GetActiveEntry", <<userID>>, cached.val)
        ELSE \E res \in innerGetActiveEntry(userID) :
               last' = RetInner("GetActiveEntry", <<userID>>, res, "GetActiveEntry")
  /\ Keep
  /\ Frame

GetActiveEntry(userID) ==
  /\ "active_entry" \in scope
  /\ \E res \in innerGetActiveEntry(userID) :
       last' = RetInner("GetActiveEntry", <<userID>>, res, "GetActiveEntry")
  /\ Keep
  /\ Frame

StartEntry(taskID, wr) ==
  /\ "entry" \in scope
  /\ \E res \in innerStartEntry(taskID) :
       /\ IF ~res.ok THEN Keep ELSE Invalidate1({"entries", "active_entry"}, wr)
       /\ last' = RetInner("StartEntry", <<taskID>>, res, "StartEntry")
  /\ Frame

StopEntry(id, wr) ==
  /\ "entry" \in scope
  /\ \E res \in innerStopEntry(id) :
       /\ IF ~res.ok THEN Keep ELSE Invalidate1({"entries", "active_entry"}, wr)
       /\ last' = RetInner("StopEntry", <<id>>, res, "StopEntry")
  /\ Frame

Next ==
  \/ \E wr \in WriteOutcomes : GetMe(wr)
  \/ ValidateAuth
  \/ \E opts \in ProjectOpts, wr \in WriteOutcomes : GetProjects(opts, wr)
  \/ \E id \in Ids, wr \in WriteOutcomes : GetProject(id, wr)
  \/ \E name \in SearchNames, wr \in WriteOutcomes : GetProjectByName(name, wr)
  \/ \E wr1 \in WriteOutcomes, wr2 \in WriteOutcomes : CreateProject(wr1, wr2)
  \/ \E id \in Ids, wr \in WriteOutcomes : ArchiveProject(id, wr)
  \/ \E opts \in TaskOpts, wr \in WriteOutcomes : GetTasks(opts, wr)
  \/ \E id \in Ids, wr \in WriteOutcomes : GetTask(id, wr)
  \/ \E projectID \in Ids, name \in SearchNames, wr \in WriteOutcomes :
       GetTaskByName(projectID, name, wr)
  \/ \E wr1 \in WriteOutcomes, wr2 \in WriteOutcomes : CreateTask(wr1, wr2)
  \/ \E id \in Ids, wr \in WriteOutcomes : CompleteTask(id, wr)
  \/ \E projectID \in Ids, wr \in WriteOutcomes : GetTaskLists(projectID, wr)
  \/ \E opts \in EntryOpts, wr \in WriteOutcomes : GetEntries(opts, wr)
  \/ \E id \in Ids, wr \in WriteOutcomes : GetEntry(id, wr)
  \/ \E wr \in WriteOutcomes : CreateEntry(wr)
  \/ \E id \in Ids, wr \in WriteOutcomes : UpdateEntry(id, wr)
  \/ \E id \in Ids, wr \in WriteOutcomes : DeleteEntry(id, wr)
  \/ \E userID \in UserIds : GetTodayEntries(userID)
  \/ \E userID \in UserIds : GetActiveEntry(userID)
  \/ \E taskID \in Ids, wr \in WriteOutcomes : StartEntry(taskID, wr)
  \/ \E id \in Ids, wr \in WriteOutcomes : StopEntry(id, wr)
  \/ Tick

Spec == Init /\ [][Next]_vars

(***************************************************************************)
(* Claims about the Store, checked under SpecStore.                        *)
(***************************************************************************)
EntryAt(rt, k) == entries[rt][k]

\* C1: for a resource type whose TTL is greater than zero, Set(T,k,V) followed
\* by Get(T,k) as the next Store call, before the TTL has elapsed (in
\* particular immediately), returns V unchanged.
C1_SetThenGet ==
  [][(/\ last.op = "Set"
      /\ getTTL(last.rt) > 0
      /\ last'.op = "Get"
      /\ last'.rt = last.rt
      /\ last'.key = last.key
      /\ last'.at - last.at <= getTTL(last.rt))
     => last'.res = Found(last.val)]_vars

\* a Get has just returned, at the instant of the Set, a value with an omitempty
\* field left out of its encoding, from a bucket the TTL table does not name
C1_Witness ==
  /\ last.op = "Get"
  /\ last.rt = "clients"
  /\ last.res.ok
  /\ last.res.val.Code = ""
  /\ EntryAt(last.rt, last.key).CachedAt = last.at

\* C2: Get succeeds only on an existing entry with now - cached_at <=
\* ttl_seconds and then returns what was stored; on an entry whose age exceeds
\* its TTL Get answers CacheMiss while GetStale returns the value last Set;
\* GetStale answers CacheMiss only when the key is absent.
C2_GetResult ==
  last.op = "Get" =>
    /\ last.res.ok =>
         /\ HasEntry(entries, last.rt, last.key)
         /\ last.at - EntryAt(last.rt, last.key).CachedAt <= EntryAt(last.rt, last.key).TTLSeconds
    /\ (/\ HasEntry(entries, last.rt, last.key)
        /\ last.at - EntryAt(last.rt, last.key).CachedAt > EntryAt(last.rt, last.key).TTLSeconds)
       => last.res = ErrCacheMiss

C2_GetStaleResult ==
  last.op = "GetStale" => (last.res = ErrCacheMiss <=> ~HasEntry(entries, last.rt, last.key))

C2_StaleAfterSet ==
  (/\ last.op = "Set"
   /\ getTTL(last.rt) > 0
   /\ last'.op = "GetStale"
   /\ last'.rt = last.rt
   /\ last'.key = last.key)
  => last'.res = Found(last.val)

C2_NeverStale == [](C2_GetResult /\ C2_GetStaleResult) /\ [][C2_StaleAfterSet]_vars

\* GetStale has just returned the value of an entry that had expired
C2_Witness ==
  /\ last.op = "GetStale"
  /\ last.res.ok
  /\ last.at - EntryAt(last.rt, last.key).CachedAt > EntryAt(last.rt, last.key).TTLSeconds

(***************************************************************************)
(* Claims about CachedClient, checked under Spec.                          *)
(***************************************************************************)
\* the read operations that consult the Store
CachedReads == {"GetMe", "GetProjects", "GetProject", "GetTasks", "GetTask",
                "GetTaskLists", "GetEntries", "GetEntry"}

\* the bucket a read operation keeps its results in
BucketOf(op) ==
  CASE op = "GetMe" -> "me"
    [] op = "GetProjects" -> "projects"
    [] op \in {"GetProject", "GetProjectByName"} -> "project"
    [] op = "GetTasks" -> "tasks"
    [] op \in {"GetTask", "GetTaskByName"} -> "task"
    [] op = "GetTaskLists" -> "tasklists"
    [] op = "GetEntries" -> "entries"
    [] op = "GetEntry" -> "entry"

\* the key a call of a read operation looks up
KeyOfCall(r) ==
  CASE r.op = "GetMe" -> "me"
    [] r.op = "GetProjects" -> projectsKey(r.arg[1])
    [] r.op = "GetTasks" -> tasksKey(r.arg[1])
    [] r.op = "GetEntries" -> entriesKey(r.arg[1])
    [] r.op = "GetTaskLists" -> "project=" \o ToString(r.arg[1])
    [] r.op \in {"GetProject", "GetTask", "GetEntry"} -> idKey(r.arg[1])
    [] r.op \in {"GetProjectByName", "GetTaskByName"} -> idKey(r.val.ID)

HasEntryOf(r) == HasEntry(entries, BucketOf(r.op), KeyOfCall(r))

EntryOf(r) == entries[BucketOf(r.op)][KeyOfCall(r)]

ListOf(op) ==
  CASE op = "CreateProject" -> "GetProjects"
    [] op = "CreateTask" -> "GetTasks"
    [] op = "CreateEntry" -> "GetEntries"

\* C4: after a successful CreateProject, CreateTask or CreateEntry, the next
\* call, if it is the list read of that family (any options), invokes the
\* wrapped client's list operation.
C4_CreateThenList ==
  [][(/\ now' = now
      /\ last.op \in {"CreateProject", "CreateTask", "CreateEntry"}
      /\ last.ok
      /\ last'.op = ListOf(last.op))
     => last'.inner = {last'.op}]_vars

\* a task was created while a task list was cached, and the list is gone
C4_Witness ==
  /\ last.op = "CreateTask"
  /\ last.ok
  /\ "tasks" \in last.had
  /\ "tasks" \notin DOMAIN entries

FallbackReads == {"GetProjects", "GetProject", "GetTasks", "GetTask", "GetEntries"}

ReadOps == CachedReads \cup {"GetProjectByName", "GetTaskByName", "GetTodayEntries",
                             "GetActiveEntry"}

\* C6: a read that the wrapped client answers with an *api.APIError returns
\* that error and no value.
C6_APIErrorPropagates ==
  (/\ last.op \in ReadOps
   /\ last.inner # {}
   /\ ~last.answer.ok
   /\ last.answer.err.api)
  => (~last.ok /\ last.err = last.answer.err /\ last.val = Nil)

\* GetProject returned the APIError although an expired entry was there
C6_Witness ==
  /\ last.op = "GetProject"
  /\ ~last.ok
  /\ last.err = ErrAPI
  /\ HasEntryOf(last)
  /\ Expired(EntryOf(last), last.at)

\* C7: an error a CachedClient operation returns is the error the wrapped
\* client returned in that call, never the Store's; a connection error with
\* no entry under the key is returned as it is.
C7_ErrorsAreInner ==
  last.op # "Open" =>
    /\ ~last.ok => (/\ last.inner # {}
                    /\ ~last.answer.ok
                    /\ last.err = last.answer.err
                    /\ last.err \in InnerErrs)
    /\ (/\ last.op \in CachedReads
        /\ last.inner # {}
        /\ last.answer = Fail(ErrNet)
        /\ ~HasEntryOf(last))
       => (~last.ok /\ last.err = ErrNet)

\* a project list read failed with the connection error, nothing being cached
C7_Witness ==
  /\ last.op = "GetProjects"
  /\ ~last.ok
  /\ last.err = ErrNet
  /\ ~HasEntryOf(last)

\* C8: a read returns the value of an expired entry only if in that call the
\* wrapped client was invoked and failed with the connection error; when the
\* wrapped client answers with a result or an APIError the call returns that.
C8_StaleOnlyOffline ==
  last.op \in CachedReads \cup {"GetProjectByName", "GetTaskByName"} =>
    /\ (/\ last.ok
        /\ last.src # "inner"
        /\ HasEntryOf(last)
        /\ Expired(EntryOf(last), last.at))
       => (last.inner # {} /\ last.answer = Fail(ErrNet))
    /\ (last.inner # {} /\ (last.answer.ok \/ last.answer.err.api))
       => (/\ last.src = "inner"
           /\ last.ok = last.answer.ok
           /\ last.val = last.answer.val)

\* GetTaskByName, led by the name index to an expired task, returned it after
\* a connection error
C8_Witness ==
  /\ last.op = "GetTaskByName"
  /\ last.ok
  /\ last.src = "stale"
  /\ Expired(EntryOf(last), last.at)

\* C9: GetMe, GetTaskLists and GetEntry, too, return the value of an expired
\* entry when the wrapped client fails with the connection error.
C9_UniformFallback ==
  (/\ last.op \in {"GetMe", "GetTaskLists", "GetEntry"}
   /\ last.inner # {}
   /\ last.answer = Fail(ErrNet)
   /\ HasEntryOf(last)
   /\ Expired(EntryOf(last), last.at))
  => (last.ok /\ last.val = Unmarshal(EntryOf(last).Data))

EntryMutations == {"CreateEntry", "UpdateEntry", "DeleteEntry", "StartEntry", "StopEntry"}

\* C10: after a successful CreateEntry, UpdateEntry, DeleteEntry, StartEntry or
\* StopEntry the buckets entries, entry and active_entry are empty.
C10_EntryBucketsEmpty ==
  (last.op \in EntryMutations /\ last.ok)
  => DOMAIN entries \cap {"entries", "entry", "active_entry"} = {}

Mutations == {"CreateProject", "ArchiveProject", "CreateTask", "CompleteTask"} \cup EntryMutations

\* C11: a mutating operation to which the wrapped client answers with an error
\* returns that error and leaves the document, in memory and on disk, as it
\* was before the call.
C11_FailedMutationKeepsCache ==
  [][(/\ now' = now
      /\ last'.op \in Mutations
      /\ ~last'.answer.ok)
     => (/\ ~last'.ok
         /\ last'.err = last'.answer.err
         /\ entries' = entries
         /\ disk' = disk)]_vars

\* CompleteTask failed while a task list and a task were cached, and both are
\* still there
C11_Witness ==
  /\ last.op = "CompleteTask"
  /\ ~last.ok
  /\ last.err = ErrNet
  /\ {"tasks", "task"} \subseteq DOMAIN entries
  /\ disk = MarshalCacheData(entries)

\* the reads of a family that a mutation of it must send to the wrapped client
FamilyReads(op) ==
  CASE op = "ArchiveProject" -> {"GetProjects", "GetProject"}
    [] op = "CompleteTask" -> {"GetTasks", "GetTask"}

FamilyBuckets(op) ==
  CASE op = "ArchiveProject" -> {"projects", "project", "project_by_name"}
    [] op = "CompleteTask" -> {"tasks", "task", "task_by_name"}

C12_BucketsEmpty ==
  (last.op \in {"ArchiveProject", "CompleteTask"} /\ last.ok)
  => DOMAIN entries \cap FamilyBuckets(last.op) = {}

C12_NextReadAsksInner ==
  (/\ now' = now
   /\ last.op \in {"ArchiveProject", "CompleteTask"}
   /\ last.ok
   /\ last'.op \in FamilyReads(last.op))
  => last'.inner = {last'.op}

\* C12: after a successful ArchiveProject (CompleteTask) the three buckets of
\* the project (task) family are empty, and a list or get-by-id read of the
\* family made as the next call invokes the wrapped client.
C12_ArchiveCompleteInvalidate == [](C12_BucketsEmpty) /\ [][C12_NextReadAsksInner]_vars

\* a project was archived while a project list and a project were cached
C12_Witness ==
  /\ last.op = "ArchiveProject"
  /\ last.ok
  /\ {"projects", "project"} \subseteq last.had
  /\ entries = EmptyDoc

(***************************************************************************)
(* More claims about the Store, checked under SpecStore.                   *)
(***************************************************************************)
C13_Deletes ==
  (now' = now /\ last'.op = "InvalidateType")
  => (/\ \A rt \in last'.rts : \A k \in StoreKeys :
            /\ Get(entries', now', rt, k) = ErrCacheMiss
            /\ GetStale(entries', rt, k) = ErrCacheMiss
      /\ DOMAIN entries' = DOMAIN entries \ last'.rts
      /\ \A rt \in DOMAIN entries \ last'.rts : entries'[rt] = entries[rt])

C13_MissAfter ==
  (/\ last.op = "InvalidateType"
   /\ last'.op \in {"Get", "GetStale"}
   /\ last'.rt \in last.rts)
  => last'.res = ErrCacheMiss

\* C13: InvalidateType(A...) deletes every entry of each bucket it names, so
\* that a Get or GetStale of any key of those types that follows answers
\* ErrCacheMiss, and leaves the other buckets as they were.
C13_InvalidateType == [][C13_Deletes]_vars /\ [][C13_MissAfter]_vars

\* bucket project was invalidated while it and bucket clients held entries, and
\* clients still holds its entry
C13_Witness ==
  /\ last.op = "InvalidateType"
  /\ last.rts = {"project"}
  /\ DOMAIN last.had = {"project", "clients"}
  /\ DOMAIN entries = {"clients"}

\* C14: Prune removes exactly the entries with now - CachedAt > TTLSeconds, in
\* every bucket, leaves the other entries as they were, and leaves no empty
\* bucket.
C14_PruneExactlyExpired ==
  [][(now' = now /\ last'.op = "Prune")
     => (/\ \A rt \in ResourceTypes : \A k \in StoreKeys :
               HasEntry(entries', rt, k)
                 <=> (HasEntry(entries, rt, k) /\ now - entries[rt][k].CachedAt <= entries[rt][k].TTLSeconds)
         /\ \A rt \in DOMAIN entries' : \A k \in DOMAIN entries'[rt] :
               entries'[rt][k] = entries[rt][k]
         /\ \A rt \in DOMAIN entries' : DOMAIN entries'[rt] # {}
         /\ DOMAIN entries' \subseteq DOMAIN entries)]_vars

\* Prune found two entries in bucket project, one of them expired and one
\* stored later and still fresh, and left the second
C14_Witness ==
  /\ last.op = "Prune"
  /\ last.had = [rt \in {"project"} |-> 2]
  /\ Stats(entries) = [rt \in {"project"} |-> 1]
  /\ \E k \in DOMAIN entries["project"] :
       /\ entries["project"][k].CachedAt > 0
       /\ last.at - entries["project"][k].CachedAt <= entries["project"][k].TTLSeconds

C15_SetWritesNothing ==
  (now' = now /\ last'.op = "Set" /\ getTTL(last'.rt) = 0)
  => (entries' = entries /\ disk' = disk)

C15_MissAfterSet ==
  (/\ now' = now
   /\ last.op = "Set"
   /\ getTTL(last.rt) = 0
   /\ last'.op \in {"Get", "GetStale"}
   /\ last'.rt = last.rt
   /\ last'.key = last.key)
  => last'.res = ErrCacheMiss

\* C15: for a resource type whose TTL is zero, Set(T,k,V) changes nothing in
\* the document, and a Get or GetStale of (T,k) made right after it answers
\* ErrCacheMiss.
C15_ZeroTTLNeverStored == [][C15_SetWritesNothing]_vars /\ [][C15_MissAfterSet]_vars

\* GetStale right after a Set of active_entry, the document holding another entry
C15_Witness ==
  /\ last.op = "GetStale"
  /\ last.rt = "active_entry"
  /\ last.res = ErrCacheMiss
  /\ "active_entry" \notin DOMAIN entries
  /\ entries # EmptyDoc

(***************************************************************************)
(* More claims about CachedClient, checked under Spec.                     *)
(***************************************************************************)
\* C16: every call of GetActiveEntry invokes the wrapped client's
\* GetActiveEntry and returns what it answered, value or error, whatever the
\* document holds, and leaves the document as it was.
C16_ActiveEntryPassThrough ==
  [][(now' = now /\ last'.op = "GetActiveEntry")
     => (/\ last'.inner = {"GetActiveEntry"}
         /\ last'.src = "inner"
         /\ last'.ok = last'.answer.ok
         /\ last'.val = last'.answer.val
         /\ last'.err = last'.answer.err
         /\ entries' = entries
         /\ disk' = disk)]_vars

\* GetActiveEntry returned the running entry the wrapped client answered while
\* another version of that entry was cached and fresh
C16_Witness ==
  /\ last.op = "GetActiveEntry"
  /\ last.ok
  /\ last.val # Nil
  /\ HasEntry(entries, "entry", idKey(last.val.ID))
  /\ ~Expired(entries["entry"][idKey(last.val.ID)], last.at)
  /\ Unmarshal(entries["entry"][idKey(last.val.ID)].Data) # last.val
  /\ "active_entry" \notin DOMAIN entries

(***************************************************************************)
(* keys.go on its own: the key functions applied to two options values of  *)
(* one list operation.                                                     *)
(***************************************************************************)
\* ids a filter field is given; 0 is "no filter"
FilterIds == {0, 1}

\* a StartDate: none, midnight of day 1, a minute later
StartDates == {ZeroTime, [Day |-> 1, Sec |-> 0], [Day |-> 1, Sec |-> 60]}

\* an EndDate: none, midnight of day 2
EndDates == {ZeroTime, [Day |-> 2, Sec |-> 0]}

AllProjectOpts ==
  {Nil} \cup [ActiveOnly : BOOLEAN, ClientID : FilterIds, UserID : FilterIds,
              IncludeTasks : BOOLEAN, IncludeClient : BOOLEAN]

AllTaskOpts ==
  {Nil} \cup [ProjectID : FilterIds, TaskListID : FilterIds, UserID : FilterIds,
              IncludeCompleted : BOOLEAN, IncludeProject : BOOLEAN]

AllEntryOpts ==
  {Nil} \cup [UserID : FilterIds, ProjectID : FilterIds, TaskID : FilterIds,
              StartDate : StartDates, EndDate : EndDates,
              IncludeTask : BOOLEAN, IncludeProject : BOOLEAN]

\* &api.ProjectListOptions{}, &api.TaskListOptions{}, &api.EntryListOptions{}
ZeroOpts(op) ==
  CASE op = "projectsKey" -> [ActiveOnly |-> FALSE, ClientID |-> 0, UserID |-> 0,
                              IncludeTasks |-> FALSE, IncludeClient |-> FALSE]
    [] op = "tasksKey" -> [ProjectID |-> 0, TaskListID |-> 0, UserID |-> 0,
                           IncludeCompleted |-> FALSE, IncludeProject |-> FALSE]
    [] op = "entriesKey" -> [UserID |-> 0, ProjectID |-> 0, TaskID |-> 0,
                             StartDate |-> ZeroTime, EndDate |-> ZeroTime,
                             IncludeTask |-> FALSE, IncludeProject |-> FALSE]

\* the two options values a run derives the keys of
KeyInputs ==
  {[op |-> "opts", fn |-> "projectsKey", opts |-> a, other |-> b] :
     a \in AllProjectOpts, b \in AllProjectOpts}
  \cup {[op |-> "opts", fn |-> "tasksKey", opts |-> a, other |-> b] :
     a \in AllTaskOpts, b \in AllTaskOpts}
  \cup {[op |-> "opts", fn |-> "entriesKey", opts |-> a, other |-> b] :
     a \in AllEntryOpts, b \in AllEntryOpts}

InitKeys ==
  /\ entries = EmptyDoc
  /\ disk = NoFile
  /\ now = 0
  /\ scope = {"projects", "tasks", "entries"}
  /\ calls = NoCalls
  /\ last \in KeyInputs

Derived(ka, kb) ==
  /\ last' = [op |-> last.fn, opts |-> last.opts, key |-> ka,
              other |-> last.other, otherKey |-> kb]
  /\ UNCHANGED <<entries, disk, now, scope, calls>>

DoProjectsKey ==
  /\ last.op = "opts"
  /\ last.fn = "projectsKey"
  /\ Derived(projectsKey(last.opts), projectsKey(last.other))

DoTasksKey ==
  /\ last.op = "opts"
  /\ last.fn = "tasksKey"
  /\ Derived(tasksKey(last.opts), tasksKey(last.other))

DoEntriesKey ==
  /\ last.op = "opts"
  /\ last.fn = "entriesKey"
  /\ Derived(entriesKey(last.opts), entriesKey(last.other))

NextKeys == DoProjectsKey \/ DoTasksKey \/ DoEntriesKey

SpecKeys == InitKeys /\ [][NextKeys]_vars

KeyOps == {"projectsKey", "tasksKey", "entriesKey"}

Differ(op, a, b) == a # b /\ ~(a \in {Nil, ZeroOpts(op)} /\ b \in {Nil, ZeroOpts(op)})

\* C18: for each list operation, two options values that differ in a field
\* that is not zero in both have different keys.
C18_DistinctKeys ==
  (last.op \in KeyOps /\ Differ(last.op, last.opts, last.other))
  => last.key # last.otherKey

(***************************************************************************)
(* The Store holding single projects and tasks, and LookupName on it.      *)
(***************************************************************************)
LookupScope == {"project", "task"}

InitLookup == Opened /\ scope = LookupScope

EntitiesOf(rt) == IF rt = "project" THEN AnyProject ELSE AnyTask

\* what LookupName is asked for: lower-cased fragments, and one that is not
LookupNames == {<<"w", "e">>, <<"a", "p", "p">>, <<"W", "e">>}

\* the parent project LookupName is given; 0 is what a project lookup passes
ParentIds == {0} \cup Ids

Miss == [ok |-> FALSE, id |-> 0]

DoSetEntity(rt, v, wr) == DoSet(rt, idKey(v.ID), v, wr)

DoLookupName(rt, s, p) ==
  /\ LET found == LookupName(entries, rt, s, p)
     IN \E r \in (IF found = {} THEN {Miss} ELSE {[ok |-> TRUE, id |-> i] : i \in found}) :
          last' = [op |-> "LookupName", rt |-> rt, name |-> s, projectID |-> p,
                   res |-> r, at |-> now]
  /\ UNCHANGED <<entries, disk, now, scope, calls>>

NextLookup ==
  \/ \E rt \in scope, wr \in WriteOutcomes : \E v \in EntitiesOf(rt) : DoSetEntity(rt, v, wr)
  \/ \E rt \in scope, s \in LookupNames, p \in ParentIds : DoLookupName(rt, s, p)
  \/ \E rt \in scope, wr \in WriteOutcomes : DoInvalidateType({rt}, wr)
  \/ Tick

SpecLookup == InitLookup /\ [][NextLookup]_vars

\* the entities cached in bucket rt, fresh or expired
CachedIn(rt) ==
  IF rt \in DOMAIN entries THEN {Unmarshal(entries[rt][k].Data) : k \in DOMAIN entries[rt]} ELSE {}

\* what the claim asks of an entity for the lookup (rt, s, p)
Matches(rt, v, s, p) ==
  /\ Contains(ToLower(v.Name), s)
  /\ rt = "task" => v.ProjectID = p

\* C19: LookupName("task", s, p) answers the ID of an entry of bucket task
\* whose lower-cased name contains s and whose project id is p, and
\* ErrCacheMiss when the bucket has no such entry; LookupName("project", s, _)
\* does the same with the name alone.
C19_LookupName ==
  last.op = "LookupName" =>
    IF last.res.ok
      THEN \E v \in CachedIn(last.rt) :
             v.ID = last.res.id /\ Matches(last.rt, v, last.name, last.projectID)
      ELSE \A v \in CachedIn(last.rt) : ~Matches(last.rt, v, last.name, last.projectID)

\* a task lookup missed although a cached task has the name, under another
\* project
C19_Witness ==
  /\ last.op = "LookupName"
  /\ last.rt = "task"
  /\ ~last.res.ok
  /\ \E v \in CachedIn("task") :
       Contains(ToLower(v.Name), last.name) /\ v.ProjectID # last.projectID

(***************************************************************************)
(* The lookups by name of CachedClient, checked under Spec.                *)
(***************************************************************************)
ByName == {"GetProjectByName", "GetTaskByName"}

\* the get-by-id operation of the wrapped client a lookup by name resolves to
IdOp(op) == IF op = "GetProjectByName" THEN "GetProject" ELSE "GetTask"

\* a cached entity of the family matches the name (and parent) the call gives
IndexHit(r) ==
  \E v \in CachedIn(BucketOf(r.op)) :
    IF r.op = "GetProjectByName"
      THEN Matches("project", v, ToLower(r.arg[1]), 0)
      ELSE Matches("task", v, ToLower(r.arg[2]), r.arg[1])

C20_Hit ==
  (now' = now /\ last'.op \in ByName /\ IndexHit(last'))
  => (/\ last'.inner \subseteq {IdOp(last'.op)}
      /\ last'.inner = {} => (last'.ok /\ last'.val \in CachedIn(BucketOf(last'.op))))

C20_Miss ==
  (now' = now /\ last'.op \in ByName /\ ~IndexHit(last'))
  => (/\ last'.inner = {last'.op}
      /\ last'.ok => Get(entries', now', BucketOf(last'.op), idKey(last'.val.ID)) = Found(last'.val))

C20_ThenById ==
  (/\ now' = now
   /\ last.op \in ByName
   /\ last.ok
   /\ last.inner = {last.op}
   /\ last'.op = IdOp(last.op)
   /\ last'.arg = <<last.val.ID>>
   /\ last'.at - last.at <= getTTL(BucketOf(last.op)))
  => (last'.ok /\ last'.inner = {} /\ last'.val = last.val)

C21_Replaces ==
  (/\ now' = now
   /\ last'.op \in CachedReads
   /\ HasEntry(entries, BucketOf(last'.op), KeyOfCall(last'))
   /\ Expired(entries[BucketOf(last'.op)][KeyOfCall(last')], now)
   /\ last'.inner # {}
   /\ last'.answer.ok)
  => (/\ last'.ok
      /\ last'.src = "inner"
      /\ last'.val = last'.answer.val
      /\ entries'[BucketOf(last'.op)][KeyOfCall(last')] =
           cacheEntry(Marshal(last'.answer.val), now, getTTL(BucketOf(last'.op)))
      /\ \A t \in {now, now + getTTL(BucketOf(last'.op))} :
           Get(entries', t, BucketOf(last'.op), KeyOfCall(last')) = Found(last'.answer.val))

C21_ThenHit ==
  (/\ now' = now
   /\ last.op \in CachedReads
   /\ last.ok
   /\ last.src = "inner"
   /\ BucketOf(last.op) \in last.had
   /\ last.at > getTTL(BucketOf(last.op))
   /\ last'.op = last.op
   /\ last'.arg = last.arg)
  => (last'.src = "cache" /\ last'.val = last.answer.val)

\* C21: when the entry of a cached read exists but its age exceeds its TTL and
\* the wrapped client succeeds, the read returns the wrapped client's result,
\* not the expired value, and replaces the stored entry by it (cached at the
\* time of the call, with the TTL of its bucket), so that a read of the same
\* key within the TTL is a hit on the new value.
C21_ExpiredIsRefetched == [][C21_Replaces]_vars /\ [][C21_ThenHit]_vars

\* a project whose only cached entry had expired was fetched again and the
\* entry now carries the time of this call
C21_Witness ==
  /\ last.op = "GetProject"
  /\ last.src = "inner"
  /\ last.ok
  /\ "project" \in last.had
  /\ last.at > getTTL("project")
  /\ now = last.at
  /\ DOMAIN entries["project"] = {idKey(last.arg[1])}
  /\ entries["project"][idKey(last.arg[1])].CachedAt = last.at

(***************************************************************************)
(* Mutations and the wrapped client, checked under Spec.                   *)
(***************************************************************************)
\* C28: every call of a mutating operation (create, archive, complete, update,
\* delete, start, stop) invokes the wrapped client's operation of the same
\* name, once, whatever the document holds, and returns what that answered:
\* its value on success, its error on failure.
C28_MutationsPassThrough ==
  last.op \in Mutations =>
    /\ last.inner = {last.op}
    /\ last.src = "inner"
    /\ last.ok = last.answer.ok
    /\ last.val = last.answer.val
    /\ last.err = last.answer.err

\* an entry was updated through the wrapped client at an instant at which the
\* entry bucket held fresh entries
C28_Witness ==
  /\ last.op = "UpdateEntry"
  /\ last.ok
  /\ last.val.ID = last.arg[1]
  /\ last.inner = {"UpdateEntry"}
  /\ "entry" \in last.had
  /\ last.at = 0

(***************************************************************************)
(* Store.Clear, checked under SpecStore.                                   *)
(***************************************************************************)
C30_Empties ==
  (now' = now /\ last'.op = "Clear")
  => (/\ Stats(entries') = EmptyDoc
      /\ \A rt \in ResourceTypes, k \in StoreKeys :
           /\ Get(entries', now', rt, k) = ErrCacheMiss
           /\ GetStale(entries', rt, k) = ErrCacheMiss)

C30_StaysEmpty ==
  (Stats(entries) = EmptyDoc /\ Stats(entries') # EmptyDoc) => last'.op = "Set"

C30_MissWhileEmpty ==
  (now' = now /\ Stats(entries) = EmptyDoc /\ last'.op \in {"Get", "GetStale"})
  => last'.res = ErrCacheMiss

\* C30: after Clear returns Stats reports no types and every Get and GetStale
\* answers CacheMiss; the document stays that way until the next Set.
C30_Clear == [][C30_Empties]_vars /\ [][C30_StaysEmpty]_vars /\ [][C30_MissWhileEmpty]_vars

\* Clear has just emptied a document that held entries in two buckets, in
\* memory and on disk
C30_Witness ==
  /\ last.op = "Clear"
  /\ Cardinality(DOMAIN last.had) = 2
  /\ Stats(entries) = EmptyDoc
  /\ disk = MarshalCacheData(EmptyDoc)
  /\ now = last.at

(***************************************************************************)
(* isNetworkError on its own: the errors of a run are drawn at the start,  *)
(* classified once, and the project reads show what the classification is  *)
(* used for.                                                               *)
(***************************************************************************)
\* the longest message, in phrases
MaxPhrases == 2

\* what an error message can be made of; strings.Contains is case-sensitive
Phrases == {"connection refused", "no such host", "network is unreachable",
            "i/o timeout", "dial tcp", "parsing response", "Connection Refused"}

Messages == UNION {[1..n -> Phrases] : n \in 0..MaxPhrases}

ClassifyErrs == {[api |-> a, text |-> m] : a \in BOOLEAN, m \in Messages}

InitClassify ==
  /\ entries = EmptyDoc
  /\ disk = NoFile
  /\ now = 0
  /\ scope = {"projects", "project", "project_by_name"}
  /\ calls = NoCalls
  /\ last \in {[op |-> "error", err |-> e] : e \in ClassifyErrs}

DoClassify ==
  /\ last.op = "error"
  /\ last' = [op |-> "isNetworkError", err |-> last.err, res |-> isNetworkError(last.err)]
  /\ UNCHANGED <<entries, disk, now, scope, calls>>

NextClassify ==
  \/ DoClassify
  \/ \E id \in Ids, wr \in WriteOutcomes : GetProject(id, wr)
  \/ \E opts \in ProjectOpts, wr \in WriteOutcomes : GetProjects(opts, wr)
  \/ Tick

SpecClassify == InitClassify /\ [][NextClassify]_vars

TransportPhrases == {"connection refused", "no such host", "network is unreachable",
                     "i/o timeout", "dial tcp"}

\* the error is no APIError, wraps none, and its message has a transport phrase
TransportFailure(err) ==
  /\ ~err.api
  /\ \E i \in 1..Len(err.text) : err.text[i] \in TransportPhrases

C29_Classified ==
  last.op = "isNetworkError" => (last.res <=> TransportFailure(last.err))

C29_Propagated ==
  (/\ last.op \in {"GetProject", "GetProjects"}
   /\ last.inner # {}
   /\ ~last.answer.ok
   /\ ~TransportFailure(last.answer.err))
  => (~last.ok /\ last.err = last.answer.err /\ last.src = "inner")

\* C29: isNetworkError answers true if and only if the error is not, and does
\* not wrap, an *api.APIError and its message contains one of "connection
\* refused", "no such host", "network is unreachable", "i/o timeout",
\* "dial tcp"; a read that gets any other error from the wrapped client
\* returns that error and does not fall back to the stale entry.
C29_TransportFailures == C29_Classified /\ C29_Propagated

\* an error that is no APIError and says "i/o timeout" after another phrase
\* was classified as a network error
C29_Witness ==
  /\ last.op = "isNetworkError"
  /\ last.res
  /\ ~last.err.api
  /\ last.err.text = <<"parsing response", "i/o timeout">>

(***************************************************************************)
(* The Store and its file: writes can fail, and the file is opened again   *)
(* by a later Store (every run of the CLI opens the cache file anew).      *)
(***************************************************************************)
\* documents a cache file can hold when a run starts
FileDocs ==
  {EmptyDoc, [project |-> [k \in {} |-> Nil]]}
  \cup {Set(EmptyDoc, 0, "project", "1", v) : v \in StoreValues}
  \cup {Set(Set(EmptyDoc, 0, "project", "1", v), 0, "clients", "all", v) : v \in StoreValues}

\* the buckets and the key the Store of these runs writes to
PersistScope == {"project", "active_entry"}
PersistKeys == {"1"}

Files ==
  {NoFile, EmptyFile, Garbage, JSONNull, JSONObject}
  \cup {MarshalCacheData(d) : d \in FileDocs}
  \cup {Mistyped(MarshalCacheData(d)) : d \in FileDocs}

InitPersist ==
  /\ disk \in Files
  /\ entries = Open(disk)
  /\ now = 0
  /\ last = [op |-> "Open", file |-> disk, err |-> FALSE, at |-> 0]
  /\ scope = PersistScope
  /\ calls = NoCalls

\* cache.Open(path) by a new Store
DoOpen ==
  /\ entries' = Open(disk)
  /\ last' = [op |-> "Open", file |-> disk, err |-> FALSE, at |-> now]
  /\ UNCHANGED <<disk, now, scope, calls>>

\* Store.Close
DoClose(wr) ==
  /\ disk' = flush(entries, wr)
  /\ last' = [op |-> "Close", err |-> WriteErr(wr), at |-> now]
  /\ UNCHANGED <<entries, now, scope, calls>>

NextPersist ==
  \/ DoOpen
  \/ \E rt \in scope, k \in PersistKeys, v \in StoreValues, wr \in AnyWriteOutcome :
       DoSet(rt, k, v, wr)
  \/ \E rt \in scope, k \in PersistKeys : DoGet(rt, k)
  \/ \E rts \in SUBSET scope, wr \in AnyWriteOutcome : DoInvalidateType(rts, wr)
  \/ \E wr \in AnyWriteOutcome : DoClear(wr)
  \/ \E wr \in AnyWriteOutcome : DoPrune(wr)
  \/ \E wr \in AnyWriteOutcome : DoClose(wr)
  \/ Tick

SpecPersist == InitPersist /\ [][NextPersist]_vars

\* C26: Open returns no error whatever the file holds; a missing, empty or
\* unparsable file (and one that parses to a value without entries) gives an
\* empty document, of which Stats reports no types; a well-formed document
\* gives exactly the entries it contains.
C26_OpenNeverFails ==
  last.op = "Open" =>
    /\ ~last.err
    /\ ~IsDocument(last.file) => Stats(entries) = EmptyDoc
    /\ IsDocument(last.file) =>
         /\ DOMAIN entries = DOMAIN last.file.entries
         /\ \A rt \in DOMAIN entries :
              /\ DOMAIN entries[rt] = DOMAIN last.file.entries[rt]
              /\ \A k \in DOMAIN entries[rt] :
                   /\ entries[rt][k].Data = last.file.entries[rt][k].data
                   /\ entries[rt][k].CachedAt = last.file.entries[rt][k].cached_at
                   /\ entries[rt][k].TTLSeconds = last.file.entries[rt][k].ttl_seconds

\* a Store was opened on the cut-off document an earlier write had left behind
\* and started empty
C26_Witness ==
  /\ last.op = "Open"
  /\ last.at > 0
  /\ last.file = Garbage
  /\ ~last.err
  /\ Stats(entries) = EmptyDoc

WritingOps == {"Set", "InvalidateType", "Clear", "Prune"}

\* the file holds the document that is in memory, and a Store opened on it
\* gets the same entries
InSync(f, d) == f = MarshalCacheData(d) /\ Open(f) = d

\* C22 as stated: in a single-threaded run, when Set, InvalidateType, Clear or
\* Prune returns without error the document on disk equals the document in
\* memory: a Store opened afterwards on the same path observes exactly the
\* same entries.
C22_WrittenThrough ==
  [][(now' = now /\ last'.op \in WritingOps /\ ~last'.err)
     => Open(disk') = entries']_vars

C22_WriteThrough ==
  (/\ now' = now
   /\ last'.op \in WritingOps
   /\ last'.op = "Set" => getTTL(last'.rt) # 0
   /\ ~last'.err)
  => InSync(disk', entries')

C22_Reopened ==
  (/\ last.op = "Set"
   /\ getTTL(last.rt) # 0
   /\ ~last.err
   /\ last'.op = "Open"
   /\ now' - last.at <= getTTL(last.rt))
  => Get(entries', now', last.rt, last.key) = Found(last.val)

\* C22, amended: in a single-threaded run, when Set on a resource type whose
\* TTL is not zero, InvalidateType, Clear or Prune returns without error the
\* document on disk equals the document in memory, so that a Store opened
\* after such a Set finds the value under its key while the TTL lasts.
C22_WriteThroughNonZeroTTL == [][C22_WriteThrough]_vars /\ [][C22_Reopened]_vars

\* a Set has replaced an older entry and returned without error: the file
\* holds the document in memory and opens to it
C22_Witness ==
  /\ last.op = "Set"
  /\ ~last.err
  /\ last.at > 0
  /\ last.val.Code = "W1"
  /\ HasEntry(entries, last.rt, last.key)
  /\ entries[last.rt][last.key].CachedAt = last.at
  /\ InSync(disk, entries)

(***************************************************************************)
(* CachedClient over a Store whose writes can fail: the project family,    *)
(* within one instant of the clock.                                        *)
(***************************************************************************)
InitFailing == Opened /\ scope = {"projects", "project", "project_by_name"}

NextFailing ==
  \/ \E opts \in ProjectOpts, wr \in AnyWriteOutcome : GetProjects(opts, wr)
  \/ \E id \in Ids, wr \in AnyWriteOutcome : GetProject(id, wr)
  \/ \E wr1 \in AnyWriteOutcome, wr2 \in AnyWriteOutcome : CreateProject(wr1, wr2)
  \/ \E id \in Ids, wr \in AnyWriteOutcome : ArchiveProject(id, wr)

SpecFailing == InitFailing /\ [][NextFailing]_vars

\* C27: a call of CachedClient in which the wrapped client succeeded and the
\* flush of the Store failed (the file is not the document the call left in
\* memory) returns the wrapped client's result and no error, be it a read that
\* stores the result or a mutation that invalidates.
C27_WriteFailureNotFatal ==
  [][(/\ now' = now
      /\ last'.inner # {}
      /\ last'.answer.ok
      /\ disk' # MarshalCacheData(entries'))
     => (/\ last'.ok
         /\ last'.val = last'.answer.val
         /\ last'.err = NoErr)]_vars

\* the first project list was fetched and returned although the cache file
\* could not be written
C27_Witness ==
  /\ last.op = "GetProjects"
  /\ last.ok
  /\ last.src = "inner"
  /\ last.had = {}
  /\ last.val = last.answer.val
  /\ disk = NoFile
  /\ HasEntryOf(last)

(***************************************************************************)
(* One Store used by several goroutines.  A mutating operation is          *)
(*   s.mu.Lock(); <change s.data>; s.mu.Unlock(); return s.flush()         *)
(* and flush is                                                            *)
(*   s.mu.Lock(); raw := json.Marshal(s.data); s.mu.Unlock();              *)
(*   os.WriteFile(s.path, raw, 0644)                                       *)
(* so a call is four steps, the first two under the mutex and hence atomic,*)
(* the last two the open (O_TRUNC) and the write of os.WriteFile.  calls   *)
(* maps a goroutine to where its call is (pc), what it was called with     *)
(* (op) and the bytes it marshalled (raw).                                 *)
(***************************************************************************)
Goroutines == {1, 2}

FlushOps ==
  {[name |-> "Set", rt |-> rt, key |-> k, val |-> v] :
     rt \in PersistScope, k \in StoreKeys, v \in StoreValues}
  \cup {[name |-> "InvalidateType", rts |-> {"project"}], [name |-> "Clear"],
        [name |-> "Prune"]}

NoRaw == [file |-> "none"]

RECURSIVE Digits(_)
\* the length of strconv.Itoa(n), n >= 0
Digits(n) == IF n < 10 THEN 1 ELSE 1 + Digits(n \div 10)

RECURSIVE Sum(_, _)
Sum(f, S) == IF S = {} THEN 0 ELSE LET x == CHOOSE y \in S : TRUE IN f[x] + Sum(f, S \ {x})

\* the length in bytes of an encoded project: {"id":1,"name":"Web","code":"W1"}
DataSize(j) ==
  6 + Digits(j.id) + 10 + Len(j.name) + (IF "code" \in DOMAIN j THEN 10 + Len(j.code) ELSE 0) + 1

\* "key":{"data":...,"cached_at":0,"ttl_seconds":3600}
EntrySize(k, e) ==
  Len(k) + 3 + 8 + DataSize(e.data) + 13 + Digits(e.cached_at) + 15 + Digits(e.ttl_seconds) + 1

Commas(S) == IF S = {} THEN 0 ELSE Cardinality(S) - 1

\* "type":{...}
BucketSize(rt, b) ==
  Len(rt) + 3 + 1 + Sum([k \in DOMAIN b |-> EntrySize(k, b[k])], DOMAIN b) + Commas(DOMAIN b) + 1

\* the length in bytes of json.Marshal(s.data): {"entries":{...}}
Size(j) ==
  12 + Sum([rt \in DOMAIN j.entries |-> BucketSize(rt, j.entries[rt])], DOMAIN j.entries)
     + Commas(DOMAIN j.entries) + 2

\* f.Write(raw) at offset 0 of a file that has been opened for writing: bytes
\* that another writer put behind the end of raw stay, and the file is then
\* no JSON document
Overlay(f, raw) ==
  IF IsDocument(f) THEN (IF Size(f) > Size(raw) THEN Garbage ELSE raw)
  ELSE IF f = Garbage THEN Garbage
  ELSE raw

FlushDocs ==
  {EmptyDoc}
  \cup {Set(EmptyDoc, 0, "project", "all", v) : v \in StoreValues}

InitFlush ==
  /\ entries \in FlushDocs
  /\ disk = MarshalCacheData(entries)
  /\ now \in {0, Hour + 1}
  /\ last = [op |-> "Open", file |-> disk, err |-> FALSE, at |-> now]
  /\ scope = PersistScope
  /\ calls = [g \in Goroutines |-> [pc |-> "idle", op |-> [name |-> "none"], raw |-> NoRaw]]

\* the part of the operation that holds the mutex
Locked(g, op) ==
  /\ calls[g].pc = "idle"
  /\ entries' = CASE op.name = "Set" -> Set(entries, now, op.rt, op.key, op.val)
                  [] op.name = "InvalidateType" -> InvalidateType(entries, op.rts)
                  [] op.name = "Clear" -> Clear(entries)
                  [] op.name = "Prune" -> Prune(entries, now)
  /\ calls' = [calls EXCEPT ![g] =
                 [pc |-> IF op.name = "Set" /\ getTTL(op.rt) = 0 THEN "done" ELSE "flush",
                  op |-> op, raw |-> NoRaw]]
  /\ UNCHANGED <<disk, now, last, scope>>

\* flush: json.Marshal(s.data) under the mutex
flushMarshal(g) ==
  /\ calls[g].pc = "flush"
  /\ calls' = [calls EXCEPT ![g].pc = "open", ![g].raw = MarshalCacheData(entries)]
  /\ UNCHANGED <<entries, disk, now, last, scope>>

\* os.WriteFile: OpenFile(name, O_WRONLY|O_CREATE|O_TRUNC, perm)
flushOpen(g) ==
  /\ calls[g].pc = "open"
  /\ disk' = EmptyFile
  /\ calls' = [calls EXCEPT ![g].pc = "write"]
  /\ UNCHANGED <<entries, now, last, scope>>

\* os.WriteFile: f.Write(data), f.Close(); the operation returns
flushWrite(g) ==
  /\ calls[g].pc = "write"
  /\ disk' = Overlay(disk, calls[g].raw)
  /\ calls' = [calls EXCEPT ![g].pc = "done"]
  /\ UNCHANGED <<entries, now, last, scope>>

NextFlush ==
  \/ \E g \in Goroutines, op \in FlushOps : Locked(g, op)
  \/ \E g \in Goroutines : flushMarshal(g)
  \/ \E g \in Goroutines : flushOpen(g)
  \/ \E g \in Goroutines : flushWrite(g)

SpecFlush == InitFlush /\ [][NextFlush]_vars

AllReturned == \A g \in Goroutines : calls[g].pc = "done"

\* C23: when several goroutines call mutating Store operations concurrently,
\* then once all calls have returned the file holds exactly the document that
\* is in memory: no flush has persisted a torn or an outdated document.
C23_FileIsMemory == AllReturned => disk = MarshalCacheData(entries)

(***************************************************************************)
(* cmd/sync.go: the sync command and the sync after login.  A command is   *)
(* one run of the CLI: getAPIClient opens a Store on the cache file and     *)
(* wraps the client with it; invalidateCacheForSync and seedMeCache each    *)
(* open another Store on the same file, change it and close it.  A command  *)
(* is one step; entries is the document of the Store inside the client at   *)
(* the end of the command, disk the cache file.                             *)
(***************************************************************************)
cacheTypesForTarget ==
  [t \in {"me", "clients", "projects", "tasks"} |->
     CASE t = "me" -> {"me"}
       [] t = "clients" -> {"clients"}
       [] t = "projects" -> {"projects", "project", "project_by_name"}
       [] t = "tasks" -> {"tasks", "task", "task_by_name", "tasklists"}]

Range(seq) == {seq[i] : i \in DOMAIN seq}

\* a cached read of CachedClient on the document d and the file f, to which the
\* wrapped client, if asked, answers res: the document and the file after it,
\* whether the wrapped client was asked, and what the read returns
CachedRead(d, f, resourceType, key, res, wr, fallback) ==
  LET cached == Get(d, now, resourceType, key)
      stale == GetStale(d, resourceType, key)
      stored == Set(d, now, resourceType, key, res.val)
  IN IF cached.ok
       THEN [entries |-> d, disk |-> f, called |-> FALSE, ok |-> TRUE, val |-> cached.val]
     ELSE IF res.ok
       THEN [entries |-> stored, disk |-> WriteFile(f, MarshalCacheData(stored), wr),
             called |-> TRUE, ok |-> TRUE, val |-> res.val]
     ELSE IF fallback /\ isNetworkError(res.err) /\ stale.ok
       THEN [entries |-> d, disk |-> f, called |-> TRUE, ok |-> TRUE, val |-> stale.val]
     ELSE [entries |-> d, disk |-> f, called |-> TRUE, ok |-> FALSE, val |-> Nil]

\* CachedClient.GetClients: the read path of a list operation on the bucket
\* clients
GetClients(d, f, res, wr) == CachedRead(d, f, "clients", "all", res, wr, TRUE)

\* the bucket and key of the read a sync target is fetched by
TargetKey(target) ==
  CASE target = "me" -> "me"
    [] target = "clients" -> "all"
    [] target = "projects" -> projectsKey(Nil)
    [] target = "tasks" -> tasksKey(Nil)

fetchResource(d, f, target, res, wr) ==
  CASE target = "me" -> CachedRead(d, f, "me", "me", res, wr, FALSE)
    [] target = "clients" -> GetClients(d, f, res, wr)
    [] target = "projects" -> CachedRead(d, f, "projects", projectsKey(Nil), res, wr, TRUE)
    [] target = "tasks" -> CachedRead(d, f, "tasks", tasksKey(Nil), res, wr, TRUE)

RECURSIVE syncResources(_, _, _, _, _)
\* for _, target := range targets { syncResource(client, target, ...) }, left
\* at the first error
syncResources(d, f, targets, answer, wr) ==
  IF targets = <<>> THEN [entries |-> d, disk |-> f, called |-> {}, ok |-> TRUE]
  ELSE LET r == fetchResource(d, f, Head(targets), answer[Head(targets)], wr)
           asked == IF r.called THEN {Head(targets)} ELSE {}
       IN IF ~r.ok THEN [entries |-> r.entries, disk |-> r.disk, called |-> asked, ok |-> FALSE]
          ELSE LET rest == syncResources(r.entries, r.disk, Tail(targets), answer, wr)
               IN [entries |-> rest.entries, disk |-> rest.disk,
                   called |-> asked \cup rest.called, ok |-> rest.ok]

\* invalidateCacheForSync: the file after it
invalidateCacheForSync(f, targets, wr) ==
  IF f = NoFile THEN f
  ELSE LET types == UNION {cacheTypesForTarget[t] : t \in Range(targets)}
           d == InvalidateType(Open(f), types)
           invalidated == IF types = {} THEN f ELSE WriteFile(f, MarshalCacheData(d), wr)
       IN WriteFile(invalidated, MarshalCacheData(d), wr)

\* seedMeCache: the file after it
seedMeCache(f, user, wr) ==
  LET d == Set(Open(f), now, "me", "me", user)
  IN WriteFile(WriteFile(f, MarshalCacheData(d), wr), MarshalCacheData(d), wr)

\* what the wrapped client answers to the fetch of each target
innerFetch(target) ==
  CASE target = "me" -> innerGetMe
    [] target = "clients" -> OkOrFail({[items |-> <<>>]})
    [] target = "projects" -> innerGetProjects(Nil)
    [] target = "tasks" -> innerGetTasks(Nil)

Answers(targets) == {a \in [Range(targets) -> UNION {innerFetch(t) : t \in Range(targets)}] :
                       \A t \in Range(targets) : a[t] \in innerFetch(t)}

\* the targets whose entry in the cache file is fresh
FreshIn(f, targets) ==
  {t \in Range(targets) : Get(Open(f), now, t, TargetKey(t)).ok}

\* syncCmd.RunE with the targets parseSyncTargets returned
SyncCmd(targets, answer, wr) ==
  LET client == Open(disk)
      r == syncResources(client, invalidateCacheForSync(disk, targets, wr), targets, answer, wr)
  IN /\ entries' = r.entries
     /\ disk' = r.disk
     /\ last' = [op |-> "sync", targets |-> targets, answer |-> answer, at |-> now,
                 fresh |-> FreshIn(disk, targets), called |-> r.called, ok |-> r.ok]
     /\ UNCHANGED <<now, scope, calls>>

SyncTargets == {<<"projects">>, <<"projects", "tasks">>}

InitSync == Opened /\ scope = {"projects", "tasks"}

NextSync ==
  \/ \E targets \in SyncTargets : \E answer \in Answers(targets), wr \in WriteOutcomes :
       SyncCmd(targets, answer, wr)
  \/ Tick

SpecSync == InitSync /\ [][NextSync]_vars

\* C24: when the wrapped client answers every fetch of a sync command, the
\* fetch of each requested target was invoked, also of a target that had a
\* fresh entry in the cache when the command started, and the cache file
\* afterwards holds what was fetched.
C24_SyncForceRefreshes ==
  (last.op = "sync" /\ \A t \in Range(last.targets) : last.answer[t].ok)
  => /\ last.called = Range(last.targets)
     /\ \A t \in Range(last.targets) :
          Get(Open(disk), last.at, t, TargetKey(t)) = Found(last.answer[t].val)

(***************************************************************************)
(* cmd/sync.go: the sync after login, and the command run after it.        *)
(***************************************************************************)
LoginTargets == <<"clients", "projects">>

\* syncAfterLogin(formatter, user)
syncAfterLogin(user, answer, wr) ==
  LET client == Open(disk)
      seeded == seedMeCache(disk, user, wr)
      r == syncResources(client, invalidateCacheForSync(seeded, LoginTargets, wr),
                         LoginTargets, answer, wr)
  IN /\ entries' = r.entries
     /\ disk' = r.disk
     /\ last' = [op |-> "login", user |-> user, answer |-> answer, at |-> now,
                 called |-> r.called, ok |-> r.ok]
     /\ UNCHANGED <<now, scope, calls>>

\* a later command that asks its client for the user: getAPIClient, GetMe
MeCmd(res, wr) ==
  LET r == fetchResource(Open(disk), disk, "me", res, wr)
  IN /\ entries' = r.entries
     /\ disk' = r.disk
     /\ last' = [op |-> "me", called |-> r.called, ok |-> r.ok, val |-> r.val]
     /\ UNCHANGED <<now, scope, calls>>

InitLogin == Opened /\ scope = {"me", "clients", "projects"}

NextLogin ==
  \/ \E user \in Users, answer \in Answers(LoginTargets), wr \in WriteOutcomes :
       syncAfterLogin(user, answer, wr)
  \/ \E res \in innerGetMe, wr \in WriteOutcomes : MeCmd(res, wr)

SpecLogin == InitLogin /\ [][NextLogin]_vars

\* C25: after a sync after login in which the wrapped client answered both
\* fetches, the cache file holds the me entry seeded from the user of the
\* login, fresh, together with the fetched clients and projects.
C25_MeSeededWithSyncedData ==
  (last.op = "login" /\ \A t \in Range(LoginTargets) : last.answer[t].ok)
  => /\ Get(Open(disk), last.at, "me", "me") = Found(last.user)
     /\ \A t \in Range(LoginTargets) :
          Get(Open(disk), last.at, t, TargetKey(t)) = Found(last.answer[t].val)

(***************************************************************************)
(* cmd/root.go: getAPIClient and wrapWithCache with the --no-cache flag.   *)
(* The client of a command is either the remote client itself or a         *)
(* CachedClient with a Store opened on the cache file.                     *)
(***************************************************************************)
\* wrapWithCache that ignores the flag
wrapWithCache_always(no_cache, f) == [cached |-> TRUE, store |-> Open(f)]

\* wrapWithCache(client): without a Store the document of the client is empty
wrapWithCache(no_cache, f) ==
  IF no_cache THEN [cached |-> FALSE, store |-> EmptyDoc]
  ELSE [cached |-> TRUE, store |-> Open(f)]

\* fetchResource(client, target) on the client wrapWithCache returned: the
\* remote client answers res to every call, the CachedClient reads through
\* its Store
clientFetch(client, f, target, res, wr) ==
  IF client.cached THEN fetchResource(client.store, f, target, res, wr)
  ELSE [entries |-> client.store, disk |-> f, called |-> TRUE, ok |-> res.ok,
        val |-> IF res.ok THEN res.val ELSE Nil]

\* a command that reads one target through its client
ReadCmd(no_cache, target, res, wr) ==
  LET r == clientFetch(wrapWithCache(no_cache, disk), disk, target, res, wr)
  IN /\ entries' = r.entries
     /\ disk' = r.disk
     /\ last' = [op |-> "read", no_cache |-> no_cache, target |-> target, answer |-> res,
                 cached |-> Get(Open(disk), now, target, TargetKey(target)),
                 called |-> r.called, ok |-> r.ok, val |-> r.val]
     /\ UNCHANGED <<now, scope, calls>>

ReadTargets == {"projects", "tasks"}

InitNoCache == Opened /\ scope = ReadTargets

NextNoCache ==
  \/ \E no_cache \in BOOLEAN, target \in ReadTargets, wr \in WriteOutcomes :
       \E res \in innerFetch(target) : ReadCmd(no_cache, target, res, wr)
  \/ Tick

SpecNoCache == InitNoCache /\ [][NextNoCache]_vars

\* C31: a read of a command run with --no-cache invokes the remote API and
\* returns its answer, whatever the cache file holds, and leaves the cache
\* file as it was.
C31_NoCacheBypasses ==
  [][(now' = now /\ last'.op = "read" /\ last'.no_cache)
     => /\ last'.called
        /\ last'.ok = last'.answer.ok
        /\ last'.ok => last'.val = last'.answer.val
        /\ disk' = disk]_vars

\* C31: a read with --no-cache of a target that has a fresh entry in the cache
\* file, answered by the remote API with another value
C31_Witness ==
  /\ last.op = "read" /\ last.no_cache
  /\ last.cached.ok /\ last.answer.ok
  /\ last.cached.val # last.answer.val
  /\ Get(Open(disk), now, last.target, TargetKey(last.target)) = last.cached

(***************************************************************************)
(* The list calls and the lookups by name that follow them, checked under  *)
(* Spec.                                                                   *)
(***************************************************************************)
ListCalls == {"GetProjects", "GetTasks"}

\* the lookup by name byName names an entity of the list the call r returned
NamesOneOf(r, byName) ==
  \E i \in DOMAIN r.val.items :
    IF r.op = "GetProjects"
      THEN /\ byName.op = "GetProjectByName"
           /\ Matches("project", r.val.items[i], ToLower(byName.arg[1]), 0)
      ELSE /\ byName.op = "GetTaskByName"
           /\ Matches("task", r.val.items[i], ToLower(byName.arg[2]), byName.arg[1])

\* C32: a GetProjectByName (GetTaskByName) made as the next call after a
\* successful GetProjects (GetTasks), for a project (task) of the list that
\* call returned, does not invoke the name search of the wrapped client.
C32_ListedIsResolvable ==
  [][(/\ now' = now
      /\ last.op \in ListCalls
      /\ last.ok
      /\ last'.op \in ByName
      /\ NamesOneOf(last, last'))
     => last'.op \notin last'.inner]_vars

(***************************************************************************)
(* LookupName on a Store whose entities are removed by InvalidateType,     *)
(* Clear and Prune.                                                        *)
(***************************************************************************)
NextIndex ==
  \/ \E rt \in scope, wr \in WriteOutcomes : \E v \in EntitiesOf(rt) : DoSetEntity(rt, v, wr)
  \/ \E rt \in scope, s \in LookupNames, p \in ParentIds : DoLookupName(rt, s, p)
  \/ \E rt \in scope, wr \in WriteOutcomes : DoInvalidateType({rt}, wr)
  \/ \E wr \in WriteOutcomes : DoClear(wr)
  \/ \E wr \in WriteOutcomes : DoPrune(wr)
  \/ Tick

SpecIndex == InitLookup /\ [][NextIndex]_vars

Removals == {"InvalidateType", "Clear", "Prune"}

\* every ID any lookup can answer is the ID of an entity of the bucket
C33_OnlyCached ==
  /\ \A rt \in LookupScope, s \in LookupNames, p \in ParentIds :
       LookupName(entries, rt, s, p) \subseteq {v.ID : v \in CachedIn(rt)}
  /\ (last.op = "LookupName" /\ last.res.ok)
       => last.res.id \in {v.ID : v \in CachedIn(last.rt)}

\* the entities an InvalidateType, a Clear or a Prune removes are answered by
\* no lookup afterwards
C33_RemovedIsMissed ==
  /\ (now' = now /\ last'.op = "InvalidateType")
       => \A rt \in last'.rts, s \in LookupNames, p \in ParentIds :
            LookupName(entries', rt, s, p) = {}
  /\ (now' = now /\ last'.op = "Clear")
       => \A rt \in LookupScope, s \in LookupNames, p \in ParentIds :
            LookupName(entries', rt, s, p) = {}
  /\ (now' = now /\ last'.op = "Prune")
       => \A rt \in DOMAIN entries : \A k \in DOMAIN entries[rt] :
            Expired(entries[rt][k], now)
              => \A s \in LookupNames, p \in ParentIds :
                   entries[rt][k].Data.id \notin LookupName(entries', rt, s, p)

\* a LookupName made as the next call after a Clear, or after an
\* InvalidateType of its bucket, misses
C33_LookupAfterRemoval ==
  (/\ now' = now
   /\ last'.op = "LookupName"
   /\ \/ last.op = "Clear"
      \/ last.op = "InvalidateType" /\ last'.rt \in last.rts)
  => ~last'.res.ok

\* C33: LookupName answers only IDs of entities that are in bucket project or
\* task at the time of the lookup: after InvalidateType of the bucket, after
\* Clear, and after the Prune that removed an entity, no lookup answers the
\* removed entity's ID.
C33_NoIndependentLifecycle ==
  []C33_OnlyCached /\ [][C33_RemovedIsMissed]_vars /\ [][C33_LookupAfterRemoval]_vars

\* a Prune removed the expired task, the only one, while the project cached
\* with it stays and is still answered by a lookup
C33_Witness ==
  /\ last.op = "Prune"
  /\ "task" \in DOMAIN last.had
  /\ "task" \notin DOMAIN entries
  /\ \A s \in LookupNames, p \in ParentIds : LookupName(entries, "task", s, p) = {}
  /\ \E s \in LookupNames : LookupName(entries, "project", s, 0) # {}

(***************************************************************************)
(* CreateProject and CreateTask and the get-by-id that follows, checked    *)
(* under Spec.                                                             *)
(***************************************************************************)
Creations == {"CreateProject", "CreateTask"}

CreatedIn(op) == IF op = "CreateProject" THEN "project" ELSE "task"

GetCreated(op) == IF op = "CreateProject" THEN "GetProject" ELSE "GetTask"

\* the created entity is in its bucket under its ID
C34_Stored ==
  (last.op \in Creations /\ last.ok)
  => GetStale(entries, CreatedIn(last.op), idKey(last.val.ID)) = Found(last.val)

\* the get-by-id of the created entity, made as the next call within the TTL
C34_ThenHit ==
  (/\ last.op \in Creations
   /\ last.ok
   /\ last'.op = GetCreated(last.op)
   /\ last'.arg = <<last.val.ID>>
   /\ last'.at - last.at <= getTTL(CreatedIn(last.op)))
  => (last'.ok /\ last'.inner = {} /\ last'.src = "cache" /\ last'.val = last.val)

\* C34: after a successful CreateProject (CreateTask) that returned E, E is in
\* bucket project (task) under key E.ID, and a GetProject(E.ID) (GetTask(E.ID))
\* made as the next call within the TTL returns E from the cache without
\* invoking the wrapped client.
C34_CreatedIsCached == []C34_Stored /\ [][C34_ThenHit]_vars

\* a project was created, and the last second of its TTL has come
C34_Witness ==
  /\ last.op = "CreateProject"
  /\ last.ok
  /\ now = last.at + getTTL("project")
  /\ Get(entries, now, "project", idKey(last.val.ID)) = Found(last.val)

(***************************************************************************)
(* The buckets CachedClient names only in invalidations, checked under     *)
(* Spec.                                                                   *)
(***************************************************************************)
NeverWritten == {"project_by_name", "task_by_name", "active_entry"}

\* C35: in every state reached from the empty store by operations of
\* CachedClient the buckets project_by_name, task_by_name and active_entry
\* hold no entries, in memory and in the cache file.
C35_NeverWritten ==
  /\ DOMAIN entries \cap NeverWritten = {}
  /\ DOMAIN Open(disk) \cap NeverWritten = {}

\* a name search of the wrapped client found a project: it is cached in bucket
\* project, and project_by_name stays empty
C35_Witness ==
  /\ last.op = "GetProjectByName"
  /\ last.ok
  /\ last.inner = {"GetProjectByName"}
  /\ "project" \in DOMAIN entries
  /\ "project_by_name" \notin DOMAIN entries

====
